---- MODULE Spec2Model ----
(***************************************************************************)
(* A model of the multi-source fetch layer of StockAnal_Sys:               *)
(*   stock_select/smart_data_source.py   SmartStockSource (cache+fallback) *)
(*   stock_select/data_sources.py        DataSourceManager (fallback)      *)
(*   stock_select/anti_crawler_strategy.py  pacing and make_request        *)
(*                                                                         *)
(* Time.  time.time() is a float number of seconds.  The model clock `now` *)
(* counts ticks of 1/Sec second, so 0.5 s is Sec \div 2 ticks.             *)
(* random.uniform(a, b) is a choice from the sample Uniform(a, b).         *)
(***************************************************************************)
EXTENDS Integers, Sequences, FiniteSets, TLC

\* ticks per second of the model clock (time.time() has unit 1 s)
Sec == 10

\* the instant the process starts, in ticks; time.time() is far from 0
StartTime == 100

\* random.uniform(a, b): the two ends of [a, b]
Uniform(a, b) == {a, b}

Min(a, b) == IF a <= b THEN a ELSE b
Max(a, b) == IF a >= b THEN a ELSE b

(***************************************************************************)
(* Values that providers and orchestrators return.  Every value is a       *)
(* record of one shape; `kind` tells a dict with data from {} and None     *)
(* and from a raised exception.                                            *)
(***************************************************************************)
Symbols == {"000001"}

\* prices a provider can report, in 1/100 yuan: float(parts[3]) of any text
Prices == {-1234, 0, 1234}

Val(k, src, sym, p) == [kind |-> k, source |-> src, symbol |-> sym, price |-> p]

\* Python None, returned by the _try_* functions that found nothing
NoneV == Val("None", "", "", 0)
\* the empty dict {}
EmptyDict == Val("empty", "", "", 0)
\* a quote dict produced by provider src
Quote(src, sym, p) == Val("quote", src, sym, p)
\* an info dict produced by provider src
Info(src, sym) == Val("info", src, sym, 0)
\* SmartStockSource._get_basic_stock_info: the placeholder info
BasicInfo(sym) == Val("basic_info", "", sym, 0)
\* an exception of class cls raised by provider src
Raised(src, cls) == Val("raise", src, cls, 0)

\* a DataFrame of stocks produced by provider src, and the empty DataFrame
Frame(src) == Val("frame", src, "", 0)
EmptyFrame == Val("empty_frame", "", "", 0)

\* Python truthiness of a returned value: None and {} are falsy; for a
\* DataFrame, `not result.empty`
Truthy(v) == v.kind \notin {"None", "empty", "empty_frame"}

(***************************************************************************)
(* State                                                                   *)
(***************************************************************************)
VARIABLES
    now,                \* time.time(), in ticks
    client,             \* what the calling code is: "smart" holds a SmartStockSource
                        \* of its own, "manager" the DataSourceManager (whose 'smart'
                        \* source is a SmartStockSource of its own), "config" the
                        \* RequestConfig; "thread" and "threads" are one and two
                        \* threads calling add_request_delay, "manager threads" are
                        \* two threads calling _wait_random_interval, and "request"
                        \* calls make_request
    \* ---- SmartStockSource
    cache,              \* self.cache: cache key -> (cache_time, cache_data)
    s_pc,               \* where the running get_stock_quote/get_stock_info is
    s_op,               \* "quote" or "info"
    s_symbol,           \* its argument
    s_i,                \* position of `for source_func in self.data_sources`
    s_ret,              \* the value it returns
    s_caller,           \* "user", or "manager" when DataSourceManager called it
    s_called,           \* the source functions it has invoked, in order
    s_result,           \* `result`, what the latest source_func(symbol) returned
    s_start,            \* time.time() at its cache check
    prev,               \* per cache key, the latest call since the cache was cleared:
                        \* what it returned, whether it called a source function,
                        \* and the time of its cache check
    \* ---- DataSourceManager
    current_source,     \* self.current_source
    last_request_time,  \* self.last_request_time
    request_count,      \* self.request_count
    min_interval,       \* self.min_interval, in ticks
    max_interval,       \* self.max_interval, in ticks
    m_pc,               \* where the running get_stock_quote/get_stock_info is
    m_op,               \* "quote", "info" or "list"
    m_source,           \* the source_name argument, NoSource when there is none
    m_symbol,           \* its argument
    m_i,                \* position of `for source_name in self.fallback_order`
    m_attempt,          \* `attempt` of _retry_with_backoff
    m_ret,              \* the value it returns, or the exception it raises
    m_called,           \* the providers it has invoked, in order
    m_out,              \* what the latest provider invocation produced
    \* ---- RequestConfig
    rc_cache,           \* self.cache
    rc_cache_timestamps,\* self.cache_timestamps
    rc_pc,              \* "got" when get_cached_data has just returned
    rc_key,             \* its arguments key and expiry,
    rc_expiry,
    rc_time,            \* the time.time() it read,
    rc_ret,             \* and what it returned
    last_request_times, \* self.last_request_times: api name -> time.time()
    rl,                 \* the running should_wait / record_request pair or
                        \* rate_limited wrapper: where it is, and its locals
    \* ---- AntiCrawlerStrategy
    request_history,    \* self.request_history: key -> time.time() of the latest call
    proxy_list,         \* self.proxy_list
    success_patterns,   \* self.success_patterns: url -> success_count, last_success
    \* ---- threads in add_request_delay / _wait_random_interval
    th,                 \* per thread: where it is, and the locals of the function
    calls,              \* how many pacing calls the threads have made
    passed,             \* per thread: its latest completed pacing call
    pair,               \* per key: when the latest two calls of add_request_delay returned
    \* ---- make_request
    mr,                 \* where the running make_request is, its locals, the latest
                        \* exchange, how many requests it sent, what it last slept
    mr_calls,           \* how many times make_request has been called
    \* ---- HeaderRotator
    hr,                 \* current_index and request_count, and what the latest
                        \* get_headers was asked for and returned
    \* ---- functions without state
    pure,               \* the latest application of one: its arguments and result
    \* ---- the proxy pool
    px                  \* the proxies added and not evicted since, and what the
                        \* latest get_proxy returned

smartVars == <<cache, s_pc, s_op, s_symbol, s_i, s_ret, s_caller, s_called, s_result,
               s_start, prev>>
managerVars == <<current_source, last_request_time, request_count,
                 min_interval, max_interval,
                 m_pc, m_op, m_source, m_symbol, m_i, m_attempt, m_ret, m_called, m_out>>
configVars == <<rc_cache, rc_cache_timestamps, rc_pc, rc_key, rc_expiry, rc_time, rc_ret,
                last_request_times, rl>>
strategyState == <<request_history, proxy_list, success_patterns>>
threadVars == <<th, calls, passed, pair>>
strategyVars == <<strategyState, threadVars, mr, mr_calls>>
sideVars == <<hr, pure, px>>
vars == <<now, client, smartVars, managerVars, configVars, strategyVars, sideVars>>

(***************************************************************************)
(* SmartStockSource (smart_data_source.py)                                 *)
(***************************************************************************)
\* self.cache_ttl = 300 seconds
cache_ttl == 300 * Sec

\* self.data_sources, in priority order
data_sources == <<"_try_tencent_finance", "_try_sina_finance", "_try_akshare_spot",
                  "_try_163_finance", "_try_akshare_individual">>

Ops == {"quote", "info"}

\* cache_key = f"quote_{symbol}" / f"info_{symbol}"
CacheKey(op, sym) == <<op, sym>>
CacheKeys == Ops \X Symbols

\* `cache_key not in self.cache`
NoEntry == [time |-> 0, data |-> NoneV]

\* source_func.__name__.endswith('_individual')
IsIndividual(func) == func = "_try_akshare_individual"

\* get_stock_quote calls the functions that are not *_individual,
\* get_stock_info the ones that are
Applies(op, func) == IF op = "quote" THEN ~IsIndividual(func) ELSE IsIndividual(func)

\* What one call of a _try_* function can return.  Each of them catches every
\* exception and returns None; otherwise it returns the dict it parsed.
TryOutcomes(func, sym) ==
    CASE func = "_try_tencent_finance" ->
            {NoneV} \cup {Quote("Tencent", sym, p) : p \in Prices}
      [] func = "_try_sina_finance" ->
            {NoneV} \cup {Quote("Sina", sym, p) : p \in Prices}
      [] func = "_try_akshare_spot" ->
            {NoneV} \cup {Quote("AKShareSpot", sym, p) : p \in Prices}
      [] func = "_try_163_finance" ->
            \* returns a dict only `if ... data[symbol].get('price')`
            {NoneV} \cup {Quote("NetEase", sym, p) : p \in Prices \ {0}}
      [] func = "_try_akshare_individual" ->
            {NoneV, Info("AKShareIndividual", sym)}

\* CacheStore with a fault: the result is returned but never stored
CacheStore_Forgets(c, key, t, result) == c

\* CacheStore with a fault: a new result is merged into the entry it finds, whose
\* price it keeps
CacheStore_Merge(c, key, t, result) ==
    [c EXCEPT ![key] = IF @ = NoEntry THEN [time |-> t, data |-> result]
                       ELSE [time |-> t, data |-> [result EXCEPT !.price = c[key].data.price]]]

\* self.cache[cache_key] = (time.time(), result)
CacheStore(c, key, t, result) == [c EXCEPT ![key] = [time |-> t, data |-> result]]

\* CacheFresh with a fault: `<=` for `<`, an entry of age TTL still counts
CacheFresh_Inclusive(entry, t) == entry # NoEntry /\ t - entry.time <= cache_ttl

\* `time.time() - cache_time < self.cache_ttl`
CacheFresh(entry, t) == entry # NoEntry /\ t - entry.time < cache_ttl

\* SmartAccepts with a fault: any non-empty result is accepted
SmartAccepts_NonEmpty(op, result) == Truthy(result)

\* `if result and result.get('price')` (quote), `if result` (info)
SmartAccepts(op, result) ==
    IF op = "quote" THEN Truthy(result) /\ result.price # 0 ELSE Truthy(result)

\* SmartExhausted with a fault: the last `result`, None, is returned
SmartExhausted_None(op, sym) == NoneV

\* what the call returns when the loop over data_sources ends
SmartExhausted(op, sym) == IF op = "quote" THEN EmptyDict ELSE BasicInfo(sym)

\* entry of get_stock_quote / get_stock_info: the cache check
SmartEnter(op, sym, caller) ==
    /\ s_pc = "idle"
    /\ s_op' = op
    /\ s_symbol' = sym
    /\ s_caller' = caller
    /\ s_called' = <<>>
    /\ s_i' = 1
    /\ s_result' = NoneV
    /\ s_start' = now
    /\ IF CacheFresh(cache[CacheKey(op, sym)], now)
       THEN /\ s_ret' = cache[CacheKey(op, sym)].data
            /\ s_pc' = "return"
       ELSE /\ s_ret' = NoneV
            /\ s_pc' = "loop"
    /\ UNCHANGED <<cache, prev>>

\* a caller other than DataSourceManager calls get_stock_quote / get_stock_info
S_Call ==
    /\ client = "smart"
    /\ \E op \in Ops, sym \in Symbols : SmartEnter(op, sym, "user")
    /\ UNCHANGED <<now, client, sideVars, strategyVars, managerVars, configVars>>

\* a loop iteration whose function is not for this operation: nothing is called
S_Skip ==
    /\ s_pc = "loop"
    /\ s_i <= Len(data_sources)
    /\ ~Applies(s_op, data_sources[s_i])
    /\ s_i' = s_i + 1
    /\ UNCHANGED <<now, client, sideVars, strategyVars, cache, s_pc, s_op, s_symbol, s_ret, s_caller,
                   s_called,
                   s_result, s_start, prev, managerVars, configVars>>

\* a loop iteration that calls source_func(symbol)
S_Try ==
    /\ s_pc = "loop"
    /\ s_i <= Len(data_sources)
    /\ Applies(s_op, data_sources[s_i])
    /\ s_called' = Append(s_called, data_sources[s_i])
    /\ \E result \in TryOutcomes(data_sources[s_i], s_symbol) :
          /\ s_result' = result
          /\ IF SmartAccepts(s_op, result)
             THEN /\ cache' = CacheStore(cache, CacheKey(s_op, s_symbol), now, result)
                  /\ s_ret' = result
                  /\ s_pc' = "return"
                  /\ s_i' = s_i
             ELSE /\ s_i' = s_i + 1
                  /\ UNCHANGED <<cache, s_ret, s_pc>>
    /\ UNCHANGED <<now, client, sideVars, strategyVars, s_op, s_symbol, s_caller, s_start, prev,
                   managerVars, configVars>>

\* the loop ended without an accepted result
S_Exhausted ==
    /\ s_pc = "loop"
    /\ s_i > Len(data_sources)
    /\ s_ret' = SmartExhausted(s_op, s_symbol)
    /\ s_pc' = "return"
    /\ UNCHANGED <<now, client, sideVars, strategyVars, cache, s_op, s_symbol, s_i, s_caller, s_called,
                   s_result, s_start, prev, managerVars, configVars>>

\* no call made yet under a cache key
NoCall == [ret |-> NoneV, fetched |-> FALSE, at |-> 0]

\* the call is over: it is now the latest call under its key, its locals are gone
SmartLeave ==
    /\ prev' = [prev EXCEPT ![CacheKey(s_op, s_symbol)] =
                   [ret |-> s_ret, fetched |-> s_called # <<>>, at |-> s_start]]
    /\ s_pc' = "idle"
    /\ s_op' = "quote"
    /\ s_symbol' = CHOOSE sym \in Symbols : TRUE
    /\ s_i' = 1
    /\ s_ret' = NoneV
    /\ s_caller' = "user"
    /\ s_called' = <<>>
    /\ s_result' = NoneV
    /\ s_start' = 0

\* the value goes back to the outside caller
S_Return ==
    /\ s_pc = "return"
    /\ s_caller = "user"
    /\ SmartLeave
    /\ UNCHANGED <<now, client, sideVars, strategyVars, cache, managerVars, configVars>>

\* SmartStockSource.clear_cache
ClearCache ==
    /\ s_pc = "idle"
    /\ m_pc = "idle"
    /\ cache' = [k \in CacheKeys |-> NoEntry]
    /\ prev' = [k \in CacheKeys |-> NoCall]
    /\ UNCHANGED <<now, client, sideVars, strategyVars, s_pc, s_op, s_symbol, s_i, s_ret, s_caller, s_called,
                   s_result, s_start, managerVars, configVars>>

(***************************************************************************)
(* DataSourceManager (data_sources.py)                                     *)
(***************************************************************************)
\* self.fallback_order when SmartStockSource imports
fallback_order == <<"smart", "tencent", "sina", "akshare">>

\* the classes of exception a provider can raise: a retryable network error
\* and a non-retryable client error
ErrorClasses == {"ConnectionError", "HTTPError404"}

\* self.name of the sources, as the model writes them: "智能数据源", "腾讯财经",
\* "新浪财经" and "AKShare"
SourceNames == [smart |-> "Smart", tencent |-> "Tencent", sina |-> "Sina",
                akshare |-> "AKShare"]

\* max_retries=3 of _retry_with_backoff
retry_max_retries == 3

\* the most calls with a source name a run of the model performs
MaxNamedRequests == 1

\* the three operations of DataSourceManager
ManagerOps == Ops \cup {"list"}

\* source_name=None
NoSource == "None"

\* (a retry loop that makes one attempt too many)
Retries_Four(op) == IF op = "list" THEN 1 ELSE retry_max_retries + 1

\* how often a provider is called before its exception leaves the call:
\* get_stock_list calls the provider directly, the other two through
\* _retry_with_backoff
Retries(op) == IF op = "list" THEN 1 ELSE retry_max_retries

\* the most provider waits a run of the model performs
MaxRequests == 4

\* What one call of self.sources[name].get_stock_quote / get_stock_info can do,
\* for the sources other than 'smart' (which is the SmartStockSource above).
SourceOutcomes(name, op, sym) ==
    CASE name = "tencent" /\ op = "quote" ->
            {Raised(name, c) : c \in ErrorClasses} \cup {EmptyDict}
              \cup {Quote("Tencent", sym, p) : p \in Prices}
      [] name = "tencent" /\ op = "info" ->
            \* parsed info, or the "unknown" info when the payload is short
            {Raised(name, c) : c \in ErrorClasses}
              \cup {Info("Tencent", sym), BasicInfo(sym)}
      [] name = "sina" /\ op = "quote" ->
            \* the dict has no 'source' key
            {Raised(name, c) : c \in ErrorClasses} \cup {EmptyDict}
              \cup {Quote("", sym, p) : p \in Prices}
      [] name = "sina" /\ op = "info" ->
            \* fixed mock data
            {Info("Sina", sym)}
      [] name = "akshare" /\ op = "quote" ->
            {Raised(name, c) : c \in ErrorClasses} \cup {EmptyDict}
              \cup {Quote("", sym, p) : p \in Prices}
      [] name = "akshare" /\ op = "info" ->
            {Raised(name, c) : c \in ErrorClasses} \cup {EmptyDict, Info("AKShare", sym)}
      [] name = "smart" /\ op = "list" ->
            \* the AKShare list, or the basic list when AKShare fails
            {Frame("smart")}
      [] name \in {"tencent", "sina"} /\ op = "list" ->
            \* fixed sample data
            {Frame(name)}
      [] name = "akshare" /\ op = "list" ->
            {Raised(name, c) : c \in ErrorClasses} \cup {EmptyFrame, Frame(name)}

\* AllSourcesFailed with a fault: an empty dict is handed back, as
\* SmartStockSource does, instead of an exception
AllSourcesFailed_Empty(op, sym) == EmptyDict

\* raise Exception(f"所有数据源都无法获取股票 {symbol} 行情"): the message holds the
\* symbol and nothing else; `providers` and `errors` are what it names of the
\* providers tried and of their errors
AllSourcesFailed(op, sym) ==
    [kind |-> "raise", source |-> "manager", symbol |-> sym, price |-> 0,
     providers |-> <<>>, errors |-> <<>>]

\* _wait_random_interval: the sleep it takes at time t
WaitRandomInterval(t) ==
    IF t - last_request_time < min_interval
    THEN Uniform(min_interval, max_interval)
    ELSE {0}

\* _retry_with_backoff: wait_time = (2 ** attempt) * random.uniform(0.5, 1.5)
RetryWaitTime(attempt) == {(2 ^ attempt) * u : u \in Uniform(Sec \div 2, (3 * Sec) \div 2)}

\* get_request_stats: the dict it returns; current_interval, the text
\* f"{min_interval}-{max_interval}秒", is kept as the pair of its two numbers
GetRequestStats ==
    [total_requests |-> request_count,
     last_request_time |-> last_request_time,
     current_interval |-> <<min_interval, max_interval>>]

\* get_current_source
GetCurrentSource == current_source

\* the arguments set_time_interval is called with, in ticks: negative, zero,
\* below the floor of 0.1 s, the floor, and min_interval above max_interval
IntervalArgs == {-5, 0, 1, 5, 20, 30}

SetTimeInterval_Unchecked(min, max) == <<min, max>>

\* set_time_interval: the pair <<self.min_interval, self.max_interval>> it leaves
SetTimeInterval(min, max) ==
    <<Max(Sec \div 10, min), Max(Max(Sec \div 10, min), max)>>

M_SetTimeInterval ==
    /\ client = "intervals"
    /\ m_pc = "idle"
    /\ \E min \in IntervalArgs, max \in IntervalArgs :
          /\ min_interval' = SetTimeInterval(min, max)[1]
          /\ max_interval' = SetTimeInterval(min, max)[2]
    /\ UNCHANGED <<now, client, sideVars, strategyVars, configVars, smartVars, current_source,
                   last_request_time, request_count,
                   m_pc, m_op, m_source, m_symbol, m_i, m_attempt, m_ret, m_called, m_out>>

\* get_stock_quote / get_stock_info / get_stock_list called without a source
\* name, or with one that is not a key of self.sources
M_Call ==
    /\ client \in {"manager", "intervals"}
    /\ m_pc = "idle"
    /\ s_pc = "idle"
    /\ request_count + Len(fallback_order) <= MaxRequests
    /\ \E op \in ManagerOps, sym \in Symbols :
          /\ m_op' = op
          /\ m_symbol' = sym
    /\ m_source' = NoSource
    /\ m_i' = 1
    /\ m_attempt' = 0
    /\ m_called' = <<>>
    /\ m_out' = NoneV
    /\ m_ret' = NoneV
    /\ m_pc' = "wait"
    /\ UNCHANGED <<now, client, sideVars, strategyVars, configVars, smartVars, current_source,
                   last_request_time, request_count,
                   min_interval, max_interval>>

\* top of a loop iteration: self._wait_random_interval()
M_Wait ==
    /\ m_pc = "wait"
    /\ m_i <= Len(fallback_order)
    /\ \E wait_time \in WaitRandomInterval(now) :
          /\ now' = now + wait_time
          /\ last_request_time' = now + wait_time
    /\ request_count' = request_count + 1
    /\ m_pc' = "invoke"
    /\ UNCHANGED <<client, sideVars, strategyVars, configVars, smartVars, current_source,
                   min_interval, max_interval,
                   m_op, m_source, m_symbol, m_i, m_attempt, m_ret, m_called, m_out>>

\* ManagerHandle with a fault: `return result` is missing, so the loop goes on
\* to the next provider after a result
ManagerHandle_NoReturn(out) ==
    /\ m_out' = out
    /\ IF out.kind = "raise" /\ m_attempt < Retries(m_op) - 1
       THEN /\ \E wait_time \in RetryWaitTime(m_attempt) : now' = now + wait_time
            /\ m_attempt' = m_attempt + 1
            /\ m_pc' = "invoke"
            /\ UNCHANGED <<m_i, m_ret, current_source>>
       ELSE /\ current_source' = (IF Truthy(out) /\ out.kind # "raise"
                                  THEN fallback_order[m_i] ELSE current_source)
            /\ m_i' = m_i + 1
            /\ m_attempt' = 0
            /\ m_pc' = "wait"
            /\ UNCHANGED <<now, m_ret>>

\* ManagerHandle with a fault: `attempt == max_retries` for
\* `attempt == max_retries - 1`, one attempt more on every provider
ManagerHandle_OneMore(out) ==
    /\ m_out' = out
    /\ IF out.kind = "raise"
       THEN IF m_attempt = Retries(m_op)
            THEN /\ m_i' = m_i + 1
                 /\ m_attempt' = 0
                 /\ m_pc' = "wait"
                 /\ UNCHANGED <<now, m_ret, current_source>>
            ELSE /\ \E wait_time \in RetryWaitTime(m_attempt) : now' = now + wait_time
                 /\ m_attempt' = m_attempt + 1
                 /\ m_pc' = "invoke"
                 /\ UNCHANGED <<m_i, m_ret, current_source>>
       ELSE IF Truthy(out)
            THEN /\ current_source' = fallback_order[m_i]
                 /\ m_ret' = out
                 /\ m_pc' = "return"
                 /\ UNCHANGED <<now, m_i, m_attempt>>
            ELSE /\ m_i' = m_i + 1
                 /\ m_attempt' = 0
                 /\ m_pc' = "wait"
                 /\ UNCHANGED <<now, m_ret, current_source>>

\* what get_stock_quote / get_stock_info does with the outcome `out` of
\* self._retry_with_backoff's call of the provider (attempt m_attempt)
ManagerHandle(out) ==
    /\ m_out' = out
    /\ IF out.kind = "raise"
       THEN IF m_attempt = Retries(m_op) - 1
            THEN \* raise e; the manager's except clause logs it and continues
                 /\ m_i' = m_i + 1
                 /\ m_attempt' = 0
                 /\ m_pc' = "wait"
                 /\ UNCHANGED <<now, m_ret, current_source>>
            ELSE \* sleep, then the next attempt on the same provider
                 /\ \E wait_time \in RetryWaitTime(m_attempt) : now' = now + wait_time
                 /\ m_attempt' = m_attempt + 1
                 /\ m_pc' = "invoke"
                 /\ UNCHANGED <<m_i, m_ret, current_source>>
       ELSE IF Truthy(out)
            THEN /\ current_source' = fallback_order[m_i]
                 /\ m_ret' = out
                 /\ m_pc' = "return"
                 /\ UNCHANGED <<now, m_i, m_attempt>>
            ELSE /\ m_i' = m_i + 1
                 /\ m_attempt' = 0
                 /\ m_pc' = "wait"
                 /\ UNCHANGED <<now, m_ret, current_source>>

\* ManagerHandleNamed with a fault: the provider's exception is swallowed and
\* an empty dict returned
ManagerHandleNamed_Swallow(out) ==
    /\ m_out' = out
    /\ IF out.kind = "raise" /\ m_attempt < Retries(m_op) - 1
       THEN /\ \E wait_time \in RetryWaitTime(m_attempt) : now' = now + wait_time
            /\ m_attempt' = m_attempt + 1
            /\ m_pc' = "invoke"
            /\ UNCHANGED <<m_i, m_ret, current_source>>
       ELSE /\ m_ret' = (IF out.kind = "raise" THEN EmptyDict ELSE out)
            /\ m_pc' = "return"
            /\ UNCHANGED <<now, m_i, m_attempt, current_source>>

\* what the three operations do with the outcome `out` of the provider when
\* they were given the name of a source: `return self._retry_with_backoff(...)`
\* (quote, info) or `return self.sources[source_name].get_stock_list()`
ManagerHandleNamed(out) ==
    /\ m_out' = out
    /\ IF out.kind = "raise"
       THEN IF m_attempt = Retries(m_op) - 1
            THEN \* raise e: nothing catches it
                 /\ m_ret' = out
                 /\ m_pc' = "raise"
                 /\ UNCHANGED <<now, m_i, m_attempt, current_source>>
            ELSE /\ \E wait_time \in RetryWaitTime(m_attempt) : now' = now + wait_time
                 /\ m_attempt' = m_attempt + 1
                 /\ m_pc' = "invoke"
                 /\ UNCHANGED <<m_i, m_ret, current_source>>
       ELSE \* whatever the provider returned, empty or not
            /\ m_ret' = out
            /\ m_pc' = "return"
            /\ UNCHANGED <<now, m_i, m_attempt, current_source>>

\* the outcome of a provider call, in either mode
Handle(out) ==
    IF m_source = NoSource THEN ManagerHandle(out) ELSE ManagerHandleNamed(out)

\* get_stock_quote / get_stock_info / get_stock_list called with the name of
\* one of self.sources
M_CallNamed ==
    /\ client = "named"
    /\ m_pc = "idle"
    /\ s_pc = "idle"
    /\ request_count < MaxNamedRequests
    /\ \E op \in ManagerOps, sym \in Symbols :
          /\ m_op' = op
          /\ m_symbol' = sym
    /\ \E i \in 1..Len(fallback_order) :
          /\ m_source' = fallback_order[i]
          /\ m_i' = i
    /\ m_attempt' = 0
    /\ m_called' = <<>>
    /\ m_out' = NoneV
    /\ m_ret' = NoneV
    /\ m_pc' = "wait"
    /\ UNCHANGED <<now, client, sideVars, strategyVars, configVars, smartVars, current_source,
                   last_request_time, request_count,
                   min_interval, max_interval>>

\* a provider other than SmartStockSource.get_stock_quote / get_stock_info is
\* called, through _retry_with_backoff or directly
M_Invoke ==
    /\ m_pc = "invoke"
    /\ fallback_order[m_i] # "smart" \/ m_op = "list"
    /\ m_called' = Append(m_called, fallback_order[m_i])
    /\ \E out \in SourceOutcomes(fallback_order[m_i], m_op, m_symbol) : Handle(out)
    /\ UNCHANGED <<client, sideVars, strategyVars, configVars, smartVars, last_request_time,
                   request_count, min_interval,
                   max_interval, m_op, m_source, m_symbol>>

\* _retry_with_backoff calls SmartStockSource.get_stock_quote / get_stock_info
M_InvokeSmart ==
    /\ m_pc = "invoke"
    /\ fallback_order[m_i] = "smart"
    /\ m_op # "list"
    /\ m_called' = Append(m_called, fallback_order[m_i])
    /\ SmartEnter(m_op, m_symbol, "manager")
    /\ m_pc' = "await"
    /\ UNCHANGED <<now, client, sideVars, strategyVars, configVars, current_source,
                   last_request_time, request_count, min_interval,
                   max_interval, m_op, m_source, m_symbol, m_i, m_attempt, m_ret, m_out>>

\* SmartStockSource returns to _retry_with_backoff
M_Resume ==
    /\ m_pc = "await"
    /\ s_pc = "return"
    /\ s_caller = "manager"
    /\ SmartLeave
    /\ Handle(s_ret)
    /\ UNCHANGED <<client, sideVars, strategyVars, configVars, cache, last_request_time,
                   request_count, min_interval, max_interval,
                   m_op, m_source, m_symbol, m_called>>

\* the loop over fallback_order ended: raise Exception("所有数据源都无法获取...")
M_Exhausted ==
    /\ m_pc = "wait"
    /\ m_i > Len(fallback_order)
    /\ m_ret' = AllSourcesFailed(m_op, m_symbol)
    /\ m_pc' = "raise"
    /\ UNCHANGED <<now, client, sideVars, strategyVars, configVars, smartVars, current_source,
                   last_request_time, request_count,
                   min_interval, max_interval, m_op, m_source, m_symbol, m_i, m_attempt,
                   m_called, m_out>>

\* the result, or the exception, reaches the caller
M_Return ==
    /\ m_pc \in {"return", "raise"}
    /\ m_pc' = "idle"
    /\ m_op' = "quote"
    /\ m_source' = NoSource
    /\ m_symbol' = CHOOSE sym \in Symbols : TRUE
    /\ m_i' = 1
    /\ m_attempt' = 0
    /\ m_ret' = NoneV
    /\ m_called' = <<>>
    /\ m_out' = NoneV
    /\ UNCHANGED <<now, client, sideVars, strategyVars, configVars, smartVars, current_source,
                   last_request_time, request_count,
                   min_interval, max_interval>>

(***************************************************************************)
(* RequestConfig (request_config.py): the cache                            *)
(***************************************************************************)
RcKeys == {"k1", "k2"}

\* the positional arguments a rate_limited function is called with, as the
\* text hash(str(args) + str(kwargs)) stands for
WrappedArgs == {"h1", "h2"}
\* cache_key = f"{api_name}_{hash(str(args) + str(kwargs))}"
WrapperCacheKey(api_name, args) == api_name \o "_" \o args
\* every key the model stores under
RcCacheKeys ==
    RcKeys \cup {WrapperCacheKey(api_name, args) :
                    api_name \in {"stock_zh_a_spot_em", "stock_profile_cninfo", "other_api"},
                    args \in WrappedArgs}
RcData == {"d1", "d2"}

\* `key not in self.cache`, and the None that get_cached_data returns
Absent == "None"
\* `key not in self.cache_timestamps`
NoTime == -1

\* the expiry arguments the model passes: the default 60 s, and 150 s
Expiries == {60 * Sec, 150 * Sec}

\* (a lookup that never lets an entry expire)
GetCachedData_Stale(key, expiry, t) ==
    IF rc_cache[key] # Absent /\ rc_cache_timestamps[key] # NoTime
    THEN rc_cache[key] ELSE Absent

\* get_cached_data(key, expiry) at time t
GetCachedData(key, expiry, t) ==
    IF /\ rc_cache[key] # Absent
       /\ rc_cache_timestamps[key] # NoTime
       /\ t - rc_cache_timestamps[key] < expiry
    THEN rc_cache[key]
    ELSE Absent

RC_Get ==
    /\ client = "config"
    /\ rc_pc = "idle"
    /\ \E key \in RcKeys, expiry \in Expiries :
          /\ rc_key' = key
          /\ rc_expiry' = expiry
          /\ rc_time' = now
          /\ rc_ret' = GetCachedData(key, expiry, now)
    /\ rc_pc' = "got"
    /\ UNCHANGED <<now, client, sideVars, strategyVars, rc_cache, rc_cache_timestamps, smartVars,
                   managerVars, last_request_times, rl>>

\* the caller has the value
RC_Done ==
    /\ rc_pc = "got"
    /\ rc_pc' = "idle"
    /\ rc_key' = "k1"
    /\ rc_expiry' = 0
    /\ rc_time' = 0
    /\ rc_ret' = Absent
    /\ UNCHANGED <<now, client, sideVars, strategyVars, rc_cache, rc_cache_timestamps, smartVars,
                   managerVars, last_request_times, rl>>

\* set_cached_data(key, data)
RC_Set ==
    /\ client = "config"
    /\ rc_pc = "idle"
    /\ \E key \in RcKeys, data \in RcData :
          /\ rc_cache' = [rc_cache EXCEPT ![key] = data]
          /\ rc_cache_timestamps' = [rc_cache_timestamps EXCEPT ![key] = now]
    /\ UNCHANGED <<now, client, sideVars, strategyVars, rc_pc, rc_key, rc_expiry, rc_time, rc_ret,
                   smartVars, managerVars, last_request_times, rl>>

\* RequestConfig.clear_cache
RC_Clear ==
    /\ client = "config"
    /\ rc_pc = "idle"
    /\ rc_cache' = [k \in RcCacheKeys |-> Absent]
    /\ rc_cache_timestamps' = [k \in RcCacheKeys |-> NoTime]
    /\ UNCHANGED <<now, client, sideVars, strategyVars, rc_pc, rc_key, rc_expiry, rc_time, rc_ret,
                   smartVars, managerVars, last_request_times, rl>>

(***************************************************************************)
(* RequestConfig: the frequency limit, called by one thread                *)
(***************************************************************************)
\* the api names the limit is asked about: two keys of self.request_intervals
\* and a name that is none
Apis == {"stock_zh_a_spot_em", "stock_profile_cninfo", "other_api"}

\* self.request_intervals.get(api_name, 1.0), in ticks
RequestInterval(api_name) ==
    CASE api_name = "stock_zh_a_spot_em"       -> 2 * Sec
      [] api_name = "stock_individual_info_em" -> Sec
      [] api_name = "stock_profile_cninfo"     -> (3 * Sec) \div 2
      [] OTHER                                 -> Sec

\* (a wait that ends one tick short of the interval)
ShouldWaitTime_Short(last, api_name, t) ==
    IF last[api_name] = NoTime THEN 0
    ELSE IF t - last[api_name] < RequestInterval(api_name)
         THEN RequestInterval(api_name) - (t - last[api_name]) - 1
         ELSE 0

\* should_wait(api_name) at time t: how long it sleeps; it returns True exactly
\* when it sleeps
ShouldWaitTime(last, api_name, t) ==
    IF last[api_name] = NoTime THEN 0
    ELSE IF t - last[api_name] < RequestInterval(api_name)
         THEN RequestInterval(api_name) - (t - last[api_name])
         ELSE 0

\* for how many seconds the limit is followed, and the step of its clock
MaxLimiterSeconds == 3
LimiterStep == Sec \div 2

IdleLimiter == [pc |-> "idle", fn |-> "", api |-> "", key |-> "", ret |-> Absent,
                waited |-> FALSE, at |-> 0]

\* should_wait(api_name), its sleep included
SW_ShouldWait ==
    /\ client = "limiter"
    /\ rl.pc = "idle"
    /\ now <= StartTime + MaxLimiterSeconds * Sec
    /\ \E api_name \in Apis :
          LET wait_time == ShouldWaitTime(last_request_times, api_name, now)
          IN  /\ now' = now + wait_time
              /\ rl' = [IdleLimiter EXCEPT !.pc = "checked", !.fn = "should_wait",
                                           !.api = api_name, !.at = now,
                                           !.waited = (wait_time > 0)]
    /\ UNCHANGED <<client, sideVars, strategyVars, smartVars, managerVars,
                   rc_cache, rc_cache_timestamps, rc_pc, rc_key, rc_expiry, rc_time, rc_ret,
                   last_request_times>>

\* record_request(api_name), after the should_wait for the same name
SW_RecordRequest ==
    /\ rl.pc = "checked"
    /\ rl.fn = "should_wait"
    /\ last_request_times' = [last_request_times EXCEPT ![rl.api] = now]
    /\ rl' = IdleLimiter
    /\ UNCHANGED <<now, client, sideVars, strategyVars, smartVars, managerVars,
                   rc_cache, rc_cache_timestamps, rc_pc, rc_key, rc_expiry, rc_time, rc_ret>>

\* the wrapper is called in the first MaxWrapperSeconds seconds
MaxWrapperSeconds == 1

\* what the wrapped function does: it returns a value or raises
FuncOutcomes == RcData \cup {"raise"}

WrapperStores_Always(stored, key, out) == [stored EXCEPT ![key] = out]

\* the cache after the try block of the wrapper: set_cached_data is reached
\* only when func returned
WrapperStores(stored, key, out) ==
    IF out = "raise" THEN stored ELSE [stored EXCEPT ![key] = out]

\* wrapper of rate_limited(api_name), up to the call of func: the cache
\* lookup with expiry=60, and on a miss should_wait with its sleep
RL_Call ==
    /\ client = "wrapper"
    /\ rl.pc = "idle"
    /\ now <= StartTime + MaxWrapperSeconds * Sec
    /\ \E api_name \in Apis, args \in WrappedArgs :
          LET cache_key == WrapperCacheKey(api_name, args)
              cached_result == GetCachedData(cache_key, 60 * Sec, now)
              wait_time == ShouldWaitTime(last_request_times, api_name, now)
          IN  IF cached_result # Absent
              THEN /\ rl' = [IdleLimiter EXCEPT !.pc = "return", !.fn = "rate_limited",
                                                !.api = api_name, !.key = cache_key,
                                                !.ret = cached_result, !.at = now]
                   /\ now' = now
              ELSE /\ rl' = [IdleLimiter EXCEPT !.pc = "func", !.fn = "rate_limited",
                                                !.api = api_name, !.key = cache_key,
                                                !.at = now, !.waited = (wait_time > 0)]
                   /\ now' = now + wait_time
    /\ UNCHANGED <<client, sideVars, strategyVars, smartVars, managerVars,
                   rc_cache, rc_cache_timestamps, rc_pc, rc_key, rc_expiry, rc_time, rc_ret,
                   last_request_times>>

\* the try block: func, then set_cached_data and record_request, or the
\* except clause that logs and re-raises
RL_Func ==
    /\ rl.pc = "func"
    /\ \E out \in FuncOutcomes :
          /\ rc_cache' = WrapperStores(rc_cache, rl.key, out)
          /\ IF out = "raise"
             THEN /\ rl' = [rl EXCEPT !.pc = "raise", !.ret = "Exception"]
                  /\ UNCHANGED <<rc_cache_timestamps, last_request_times>>
             ELSE /\ rl' = [rl EXCEPT !.pc = "return", !.ret = out]
                  /\ rc_cache_timestamps' = [rc_cache_timestamps EXCEPT ![rl.key] = now]
                  /\ last_request_times' = [last_request_times EXCEPT ![rl.api] = now]
    /\ UNCHANGED <<now, client, sideVars, strategyVars, smartVars, managerVars,
                   rc_pc, rc_key, rc_expiry, rc_time, rc_ret>>

\* the caller has the result or the exception
RL_Return ==
    /\ rl.pc \in {"return", "raise"}
    /\ rl' = IdleLimiter
    /\ UNCHANGED <<now, client, sideVars, strategyVars, smartVars, managerVars,
                   rc_cache, rc_cache_timestamps, rc_pc, rc_key, rc_expiry, rc_time, rc_ret,
                   last_request_times>>

\* time passes between two calls, and while func runs
LimiterTick ==
    /\ client \in {"limiter", "wrapper"}
    /\ rl.pc \in {"idle", "checked", "func"}
    /\ now + LimiterStep <= StartTime + MaxLimiterSeconds * Sec
    /\ now' = now + LimiterStep
    /\ UNCHANGED <<client, sideVars, strategyVars, smartVars, managerVars, configVars>>

(***************************************************************************)
(* HeaderRotator (request_headers.py)                                      *)
(***************************************************************************)
\* USER_AGENTS, by browser, version and platform
user_agents == <<"Chrome120 Windows", "Chrome119 Windows", "Chrome118 Windows",
                 "Chrome120 Mac", "Chrome119 Mac",
                 "Firefox120 Windows", "Firefox119 Windows", "Firefox120 Mac",
                 "Safari17.1 Mac", "Safari16.6 Mac",
                 "Edge120 Windows", "Edge119 Windows">>

rotation_interval == 10

\* the header_type arguments; any other than 'mobile' and 'stock_data' gives
\* the desktop headers
HeaderTypes == {"desktop", "mobile", "stock_data", "tablet"}

\* get_desktop_headers, get_mobile_headers, get_stock_data_headers: the
\* headers of the kind with a User-Agent of random.choice(USER_AGENTS)
BuiltHeaders(header_type) ==
    { [kind |-> IF header_type \in {"mobile", "stock_data"} THEN header_type
                ELSE "desktop",
       user_agent |-> user_agents[i]] : i \in 1..Len(user_agents) }

\* HeaderRotator.__init__; kind and user_agent are those of the headers the
\* latest get_headers returned
NewRotator == [current_index |-> 0, request_count |-> 0, kind |-> "", user_agent |-> ""]

GetHeaders_PerCall(r, built) ==
    [current_index |-> (r.current_index + 1) % Len(user_agents),
     request_count |-> r.request_count + 1,
     kind |-> built.kind,
     user_agent |-> user_agents[((r.current_index + 1) % Len(user_agents)) + 1]]

\* get_headers, given the headers `built` for the header_type: the rotator
\* after the call, with the headers it returns
GetHeaders(r, built) ==
    LET count == r.request_count + 1
        index == IF count % rotation_interval = 0
                 THEN (r.current_index + 1) % Len(user_agents)
                 ELSE r.current_index
    IN  [current_index |-> index, request_count |-> count,
         kind |-> built.kind, user_agent |-> user_agents[index + 1]]

\* rotate_user_agent / _init_session_pool: get_headers('stock_data')
StockDataHeaders(r) ==
    GetHeaders(r, CHOOSE built \in BuiltHeaders("stock_data") : TRUE)

\* the rotator after AntiCrawlerStrategy._init_session_pool, `for i in range(3)`
PoolInitialised == StockDataHeaders(StockDataHeaders(StockDataHeaders(NewRotator)))

\* how many times get_headers is called
MaxHeaderCalls == 125

HR_GetHeaders ==
    /\ client = "rotator"
    /\ hr.request_count < MaxHeaderCalls
    /\ \E header_type \in HeaderTypes :
          \E built \in BuiltHeaders(header_type) : hr' = GetHeaders(hr, built)
    /\ UNCHANGED <<now, client, smartVars, managerVars, configVars, strategyVars, pure, px>>

(***************************************************************************)
(* AntiCrawlerStrategy (anti_crawler_strategy.py): pacing                  *)
(***************************************************************************)
\* the keys (urls) under which callers pace their requests
Urls == {"test_url_1", "test_url_2"}

\* the symbols the quote functions of SmartStockSource are asked for
PacedSymbols == {"000001", "600000"}

\* `if symbol.startswith('6'): market = 'sh' else: market = 'sz'`
Market(symbol) == IF symbol \in {"600000"} THEN "sh" ELSE "sz"

\* the quote functions of SmartStockSource that pace their request
PacedProviders == {"akshare_spot", "tencent_finance", "sina_finance"}

\* the key under which each of them paces its request: the first argument of
\* its add_request_delay call, or the url it hands to make_request
PacingKey(provider, symbol) ==
    CASE provider = "akshare_spot"    -> "akshare_spot_" \o symbol
      [] provider = "tencent_finance" -> "tencent_finance_" \o symbol
      [] provider = "sina_finance"    -> "http://hq.sinajs.cn/list=" \o Market(symbol) \o symbol

\* the (min_delay, max_delay) it paces with, in ticks
PacingDelays(provider) ==
    CASE provider = "akshare_spot"    -> <<2 * Sec, 4 * Sec>>
      [] provider = "tencent_finance" -> <<1 * Sec, 3 * Sec>>
      [] provider = "sina_finance"    -> <<2 * Sec, 5 * Sec>>

\* every key of request_history
Keys == Urls \cup { PacingKey(p, sym) : p \in PacedProviders, sym \in PacedSymbols }

\* self.request_history.get(url, 0)
HistoryGet(h, url) == IF h[url] = NoTime THEN 0 ELSE h[url]

\* (min_delay, max_delay) that callers pass to add_request_delay, in ticks:
\* (1.0, 2.0) and (2.0, 4.0)
DelayArgs == {<<1 * Sec, 2 * Sec>>, <<2 * Sec, 4 * Sec>>}

\* the defaults of add_request_delay, used by make_request
default_min_delay == 2 * Sec
default_max_delay == 5 * Sec

\* (a pacing that compares with the latest call under any key)
NeedsDelay_AnyKey(h, url, current_time, min_delay) ==
    \E k \in DOMAIN h : current_time - HistoryGet(h, k) < min_delay

\* `if current_time - last_request < min_delay`
NeedsDelay(h, url, current_time, min_delay) ==
    current_time - HistoryGet(h, url) < min_delay

\* add_request_delay run by a single thread, start to end at time t: how long it
\* sleeps, and the history it leaves (the time read BEFORE the sleep is stored)
AddRequestDelay(h, url, t, min_delay, max_delay) ==
    { [wait |-> w, history |-> [h EXCEPT ![url] = t]] :
        w \in IF NeedsDelay(h, url, t, min_delay)
              THEN Uniform(min_delay, max_delay) ELSE {0} }

(***************************************************************************)
(* Threads calling add_request_delay and _wait_random_interval.  Nothing   *)
(* in either function takes a lock, so a thread switch can fall between    *)
(* any two of their statements: each statement that reads or writes shared *)
(* state is a step of its own.                                             *)
(***************************************************************************)
Threads == {1, 2}

\* the threads that call add_request_delay: one alone, or both
Active == IF client = "thread" THEN {1} ELSE IF client = "threads" THEN Threads ELSE {}

\* how many pacing calls the threads make
MaxCalls == 3

\* for how many seconds the threads are followed
MaxSeconds == 2

IdleThread == [pc |-> "idle", fn |-> "", url |-> "", min_delay |-> 0, max_delay |-> 0,
               current_time |-> 0, wake |-> 0, count |-> 0, index |-> 0,
               provider |-> "", symbol |-> "", after |-> "", waited |-> FALSE]

\* what is remembered of a completed pacing call
NoPass == [fn |-> "", url |-> "", at |-> 0, waited |-> FALSE, min_delay |-> 0,
           cancelled |-> FALSE]
NoPair == [prev |-> NoTime, last |-> NoTime, prev_min |-> 0, min_delay |-> 0,
           who |-> ""]

\* `current_time = time.time()`
ARD_Begin(t) ==
    /\ t \in Active
    /\ th[t].pc = "idle"
    /\ calls < MaxCalls
    /\ \E url \in Urls, a \in DelayArgs :
          th' = [th EXCEPT ![t] = [IdleThread EXCEPT !.pc = "read",
                                                     !.fn = "add_request_delay",
                                                     !.url = url,
                                                     !.min_delay = a[1],
                                                     !.max_delay = a[2],
                                                     !.current_time = now]]
    /\ calls' = calls + 1
    /\ passed' = [passed EXCEPT ![t] = NoPass]
    /\ UNCHANGED <<now, client, sideVars, smartVars, managerVars, configVars, request_history,
                   proxy_list, success_patterns, pair, mr, mr_calls>>

\* a quote function of SmartStockSource reaches the pacing of its request:
\* `current_time = time.time()` of the add_request_delay it calls
ARD_BeginProvider(t) ==
    /\ client = "providers"
    /\ t = 1
    /\ th[t].pc = "idle"
    /\ calls < MaxCalls
    /\ \E provider \in PacedProviders, symbol \in PacedSymbols :
          th' = [th EXCEPT ![t] = [IdleThread EXCEPT
                     !.pc = "read",
                     !.fn = "add_request_delay",
                     !.provider = provider,
                     !.symbol = symbol,
                     !.url = PacingKey(provider, symbol),
                     !.min_delay = PacingDelays(provider)[1],
                     !.max_delay = PacingDelays(provider)[2],
                     !.current_time = now]]
    /\ calls' = calls + 1
    /\ passed' = [passed EXCEPT ![t] = NoPass]
    /\ UNCHANGED <<now, client, sideVars, smartVars, managerVars, configVars, request_history,
                   proxy_list, success_patterns, pair, mr, mr_calls>>

\* `last_request = self.request_history.get(url, 0)`, the comparison, and the
\* start of `time.sleep(wait_time)`
ARD_Read(t) ==
    /\ th[t].pc = "read"
    /\ th[t].fn = "add_request_delay"
    /\ IF NeedsDelay(request_history, th[t].url, th[t].current_time, th[t].min_delay)
       THEN \E wait_time \in Uniform(th[t].min_delay, th[t].max_delay) :
               th' = [th EXCEPT ![t].pc = "sleep", ![t].wake = now + wait_time,
                                ![t].waited = TRUE,
                                ![t].after = pair[th[t].url].who]
       ELSE th' = [th EXCEPT ![t].pc = "write"]
    /\ UNCHANGED <<now, client, sideVars, smartVars, managerVars, configVars, request_history,
                   proxy_list, success_patterns, calls, passed, pair, mr, mr_calls>>

\* `time.sleep(wait_time)` ends
ARD_Wake(t) ==
    /\ th[t].pc = "sleep"
    /\ th[t].fn = "add_request_delay"
    /\ now >= th[t].wake
    /\ th' = [th EXCEPT ![t].pc = "write"]
    /\ UNCHANGED <<now, client, sideVars, smartVars, managerVars, configVars, request_history,
                   proxy_list, success_patterns, calls, passed, pair, mr, mr_calls>>

\* `self.request_history[url] = current_time`, and the return
ARD_Write(t) ==
    /\ th[t].pc = "write"
    /\ th[t].fn = "add_request_delay"
    /\ request_history' = [request_history EXCEPT ![th[t].url] = th[t].current_time]
    /\ passed' = [passed EXCEPT ![t] = [fn |-> th[t].fn, url |-> th[t].url,
                                        at |-> th[t].current_time,
                                        waited |-> th[t].waited,
                                        min_delay |-> th[t].min_delay,
                                        cancelled |-> FALSE]]
    /\ pair' = [pair EXCEPT ![th[t].url] = [prev |-> @.last, last |-> now,
                                            prev_min |-> @.min_delay,
                                            min_delay |-> th[t].min_delay,
                                            who |-> th[t].url]]
    /\ th' = [th EXCEPT ![t] = IdleThread]
    /\ UNCHANGED <<now, client, sideVars, smartVars, managerVars, configVars,
                   proxy_list, success_patterns, calls, mr, mr_calls>>

\* `time.sleep(wait_time)` is interrupted (a KeyboardInterrupt, say): the
\* exception leaves add_request_delay, whose last statement is not reached
ARD_Cancel(t) ==
    /\ th[t].pc = "sleep"
    /\ th[t].fn = "add_request_delay"
    /\ passed' = [passed EXCEPT ![t] = [fn |-> th[t].fn, url |-> th[t].url,
                                        at |-> th[t].current_time,
                                        waited |-> TRUE,
                                        min_delay |-> th[t].min_delay,
                                        cancelled |-> TRUE]]
    /\ th' = [th EXCEPT ![t] = IdleThread]
    /\ UNCHANGED <<now, client, sideVars, smartVars, managerVars, configVars, request_history,
                   proxy_list, success_patterns, calls, pair, mr, mr_calls>>

\* DataSourceManager._wait_random_interval, reached from a call of the
\* manager for some symbol: `current_time = time.time()`
WRI_Begin(t) ==
    /\ client = "manager threads"
    /\ th[t].pc = "idle"
    /\ calls < MaxCalls
    /\ \E symbol \in PacedSymbols :
          th' = [th EXCEPT ![t] = [IdleThread EXCEPT !.pc = "read",
                                                     !.fn = "_wait_random_interval",
                                                     !.url = "last_request_time",
                                                     !.symbol = symbol,
                                                     !.min_delay = min_interval,
                                                     !.max_delay = max_interval,
                                                     !.current_time = now]]
    /\ calls' = calls + 1
    /\ passed' = [passed EXCEPT ![t] = NoPass]
    /\ UNCHANGED <<now, client, sideVars, smartVars, managerVars, configVars, request_history,
                   proxy_list, success_patterns, pair, mr, mr_calls>>

\* `time_since_last = current_time - self.last_request_time`, the comparison
\* with self.min_interval, and the start of `time.sleep(wait_time)`
WRI_Read(t) ==
    /\ th[t].pc = "read"
    /\ th[t].fn = "_wait_random_interval"
    /\ IF th[t].current_time - last_request_time < min_interval
       THEN \E wait_time \in Uniform(min_interval, max_interval) :
               th' = [th EXCEPT ![t].pc = "sleep", ![t].wake = now + wait_time,
                                ![t].waited = TRUE,
                                ![t].after = pair["last_request_time"].who]
       ELSE th' = [th EXCEPT ![t].pc = "write"]
    /\ UNCHANGED <<now, client, sideVars, smartVars, managerVars, configVars, request_history,
                   proxy_list, success_patterns, calls, passed, pair, mr, mr_calls>>

\* `time.sleep(wait_time)` ends
WRI_Wake(t) ==
    /\ th[t].pc = "sleep"
    /\ th[t].fn = "_wait_random_interval"
    /\ now >= th[t].wake
    /\ th' = [th EXCEPT ![t].pc = "write"]
    /\ UNCHANGED <<now, client, sideVars, smartVars, managerVars, configVars, request_history,
                   proxy_list, success_patterns, calls, passed, pair, mr, mr_calls>>

\* `self.last_request_time = time.time()`, and the read of self.request_count
\* that `self.request_count += 1` starts with
WRI_Write(t) ==
    /\ th[t].pc = "write"
    /\ th[t].fn = "_wait_random_interval"
    /\ last_request_time' = now
    /\ pair' = [pair EXCEPT !["last_request_time"] =
                    [prev |-> @.last, last |-> now, prev_min |-> @.min_delay,
                     min_delay |-> th[t].min_delay, who |-> th[t].symbol]]
    /\ th' = [th EXCEPT ![t].pc = "count", ![t].count = request_count]
    /\ UNCHANGED <<now, client, sideVars, smartVars, configVars, request_history,
                   proxy_list, success_patterns, calls, passed, mr, mr_calls,
                   current_source, request_count, min_interval, max_interval,
                   m_pc, m_op, m_source, m_symbol, m_i, m_attempt, m_ret, m_called, m_out>>

\* the write that `self.request_count += 1` ends with, and the return
WRI_Count(t) ==
    /\ th[t].pc = "count"
    /\ th[t].fn = "_wait_random_interval"
    /\ request_count' = th[t].count + 1
    /\ passed' = [passed EXCEPT ![t] = [fn |-> th[t].fn, url |-> th[t].url,
                                        at |-> th[t].current_time,
                                        waited |-> th[t].waited,
                                        min_delay |-> th[t].min_delay,
                                        cancelled |-> FALSE]]
    /\ th' = [th EXCEPT ![t] = IdleThread]
    /\ UNCHANGED <<now, client, sideVars, smartVars, configVars, request_history,
                   proxy_list, success_patterns, calls, pair, mr, mr_calls,
                   current_source, last_request_time, min_interval, max_interval,
                   m_pc, m_op, m_source, m_symbol, m_i, m_attempt, m_ret, m_called, m_out>>

\* `time.sleep(wait_time)` is interrupted: the exception leaves
\* _wait_random_interval, whose last two statements are not reached
WRI_Cancel(t) ==
    /\ th[t].pc = "sleep"
    /\ th[t].fn = "_wait_random_interval"
    /\ passed' = [passed EXCEPT ![t] = [fn |-> th[t].fn, url |-> th[t].url,
                                        at |-> th[t].current_time,
                                        waited |-> TRUE,
                                        min_delay |-> th[t].min_delay,
                                        cancelled |-> TRUE]]
    /\ th' = [th EXCEPT ![t] = IdleThread]
    /\ UNCHANGED <<now, client, sideVars, smartVars, managerVars, configVars, request_history,
                   proxy_list, success_patterns, calls, pair, mr, mr_calls>>

\* time passes, a second at a time.  The statements of the two functions take
\* far less than that: the clock moves while every thread sleeps or is idle.
ThreadTick ==
    /\ client \in {"thread", "threads", "manager threads", "providers"}
    /\ \A t \in Threads : th[t].pc \in {"idle", "sleep"}
    /\ now + Sec <= StartTime + MaxSeconds * Sec
    /\ now' = now + Sec
    /\ UNCHANGED <<client, sideVars, smartVars, managerVars, configVars, strategyVars>>

(***************************************************************************)
(* AntiCrawlerStrategy.make_request                                        *)
(***************************************************************************)
max_retries == 5
base_delay == 1 * Sec
max_delay == 10 * Sec
\* self.jitter_factor = 0.3, in percent
jitter_factor == 30

Proxies == {"http://127.0.0.1:8080"}
NoProxy == "None"

\* the time one HTTP exchange takes, in ticks
ExchangeTicks == 1

\* how many times make_request is called, and within how many seconds of the
\* start
MaxMakeRequests == 1
CallWindow == 0

\* the characters of a Retry-After header
Digits == <<"0", "1", "2", "3", "4", "5", "6", "7", "8", "9">>
IsDigit(c) == \E i \in 1..Len(Digits) : Digits[i] = c
DigitValue(c) == (CHOOSE i \in 1..Len(Digits) : Digits[i] = c) - 1

\* int(text) of a text of digits with an optional sign; any other text
\* raises ValueError
IsIntText(text) ==
    LET body == IF text # <<>> /\ Head(text) \in {"-", "+"} THEN Tail(text) ELSE text
    IN  body # <<>> /\ \A i \in 1..Len(body) : IsDigit(body[i])

RECURSIVE DigitsValue(_)
DigitsValue(body) ==
    IF body = <<>> THEN 0
    ELSE 10 * DigitsValue(SubSeq(body, 1, Len(body) - 1)) + DigitValue(body[Len(body)])

IntOfText(text) ==
    IF Head(text) = "-" THEN 0 - DigitsValue(Tail(text))
    ELSE IF Head(text) = "+" THEN DigitsValue(Tail(text))
    ELSE DigitsValue(text)

\* response.headers.get('Retry-After'): None, or the text of the header
NoHeader == [present |-> FALSE, text |-> <<>>]
Header(text) == [present |-> TRUE, text |-> text]
RetryAfterHeaders == {NoHeader, Header(<<"3">>), Header(<<"s", "o", "o", "n">>)}

\* what one HTTP exchange produces: a response with a status, or an exception
\* of requests raised by session.get
Response(status, retry_after) ==
    [kind |-> "response", cls |-> "", status |-> status, retry_after |-> retry_after]
Failure(cls) ==
    [kind |-> "error", cls |-> cls, status |-> 0, retry_after |-> NoHeader]
NoExchange == [kind |-> "none", cls |-> "", status |-> 0, retry_after |-> NoHeader]

Statuses == {200, 400, 401, 403, 404, 418, 429, 500, 503}
TransportErrors == {"ConnectionError", "Timeout", "ProxyError"}

Exchanges ==
    {Response(s, NoHeader) : s \in Statuses}
    \cup {Response(429, h) : h \in RetryAfterHeaders}
    \cup {Failure(c) : c \in TransportErrors}

\* the exception an exchange ends in: the one session.get raised, or the
\* HTTPError of response.raise_for_status()
ErrorOf(x) ==
    IF x.kind = "error" THEN [cls |-> x.cls, status |-> 0]
    ELSE [cls |-> "HTTPError", status |-> x.status]
\* raise_for_status raises for the 4xx and 5xx statuses
IsErrorStatus(status) == status >= 400 /\ status < 600
\* Exception("请求失败，已重试 5 次")
RetriesExhausted == [cls |-> "Exception", status |-> 0]
NoError == [cls |-> "", status |-> 0]

\* calculate_delay(attempt, base_delay=None)
NoBase == -1

Delay_Uncapped(attempt, base, jitter) ==
    ((IF base = NoBase THEN base_delay ELSE base) * (2 ^ attempt) * jitter) \div 100

\* calculate_delay when random.uniform(1 - jitter_factor, 1 + jitter_factor)
\* draws `jitter` percent: delay = base_delay * 2^attempt, delay *= jitter,
\* delay = min(delay, max_delay)
Delay(attempt, base, jitter) ==
    Min(((IF base = NoBase THEN base_delay ELSE base) * (2 ^ attempt) * jitter) \div 100,
        max_delay)

CalculateDelay_NextAttempt(attempt) ==
    { Delay(attempt + 1, NoBase, jitter) :
        jitter \in Uniform(100 - jitter_factor, 100 + jitter_factor) }

\* calculate_delay(attempt) as make_request calls it
CalculateDelay(attempt) ==
    { Delay(attempt, NoBase, jitter) :
        jitter \in Uniform(100 - jitter_factor, 100 + jitter_factor) }

ShouldRetry_Always(error, attempt) == attempt < max_retries

ShouldRetry_HttpOnly(error, attempt) ==
    attempt < max_retries /\ error.cls = "HTTPError"
                          /\ error.status \in {429, 500, 502, 503, 504}

\* should_retry
ShouldRetry(error, attempt) ==
    IF attempt >= max_retries THEN FALSE
    ELSE IF error.cls \in TransportErrors THEN TRUE
    ELSE IF error.cls = "HTTPError" /\ error.status \in {429, 500, 502, 503, 504} THEN TRUE
    ELSE IF error.cls = "HTTPError" /\ error.status \in {400, 401, 403, 404} THEN FALSE
    ELSE TRUE

\* handle_rate_limit: how long it sleeps.  time.sleep of a negative number
\* raises ValueError, which the function swallows like that of int().
HandleRateLimit(response) ==
    IF response.status = 429 /\ response.retry_after.present
                             /\ response.retry_after.text # <<>>
    THEN IF IsIntText(response.retry_after.text)
            /\ IntOfText(response.retry_after.text) >= 0
         THEN IntOfText(response.retry_after.text) * Sec
         ELSE 0
    ELSE 0

\* list.remove: without the first occurrence of p
RECURSIVE Remove(_, _)
Remove(list, p) ==
    IF list = <<>> THEN <<>>
    ELSE IF Head(list) = p THEN Tail(list)
    ELSE <<Head(list)>> \o Remove(Tail(list), p)

InList(list, p) == \E i \in 1..Len(list) : list[i] = p

\* the proxies that are added
ProxyPool == {"http://127.0.0.1:8080", "http://127.0.0.1:8081", "socks5://127.0.0.1:1080"}

\* how many calls of make_request the threads make
MaxProxyCalls == 3

\* what get_proxy returns: None, or the dict with a proxy under both keys
NoneProxy == [kind |-> "None", http |-> "", https |-> ""]
ProxyDict(proxy) == [kind |-> "dict", http |-> proxy, https |-> proxy]
NotAsked == [kind |-> "", http |-> "", https |-> ""]

NoProxies == [added |-> {}, got |-> NotAsked]

\* (an add_proxy that does not look for the proxy in the list)
AddedProxy_Always(list, proxy) == Append(list, proxy)

\* add_proxy: the list it leaves
AddedProxy(list, proxy) == IF InList(list, proxy) THEN list ELSE Append(list, proxy)

\* get_proxy: the values random.choice lets it return
GetProxy(list) ==
    IF list = <<>> THEN {NoneProxy}
    ELSE {ProxyDict(list[i]) : i \in 1..Len(list)}

\* _record_success_pattern
NoPattern == [success_count |-> 0, last_success |-> 0, present |-> FALSE]
RecordSuccessPattern(patterns, url, t) ==
    [patterns EXCEPT ![url] = [success_count |-> @.success_count + 1, last_success |-> t,
                               present |-> TRUE]]

NoSleep == [pacing |-> 0, retry_after |-> 0, backoff |-> 0]
\* slept is what the latest attempt slept and total what the call has slept;
\* proxies is kwargs['proxies'] (NoProxy: the key is not set), which is what
\* the latest request was sent through; evicted_at is the number of the request
\* whose failure evicted the proxy (0: none was evicted)
IdleRequest == [pc |-> "idle", url |-> "", attempt |-> 0, proxy |-> NoProxy,
                proxies |-> NoProxy, evicted_at |-> 0,
                ret |-> NoError, response |-> NoExchange, last |-> NoExchange,
                sent |-> 0, slept |-> NoSleep, total |-> NoSleep]

\* add_proxy
AddProxy ==
    /\ client = "request"
    /\ mr.pc = "idle"
    /\ \E proxy \in Proxies :
          proxy_list' = IF InList(proxy_list, proxy) THEN proxy_list
                        ELSE Append(proxy_list, proxy)
    /\ UNCHANGED <<now, client, sideVars, smartVars, managerVars, configVars, request_history,
                   success_patterns, threadVars, mr, mr_calls>>

\* make_request up to its loop: get_session, get_proxy
MR_Call ==
    /\ client = "request"
    /\ mr.pc = "idle"
    /\ mr_calls < MaxMakeRequests
    /\ now <= StartTime + CallWindow * Sec
    /\ \E url \in Urls,
          proxy \in IF proxy_list = <<>> THEN {NoProxy}
                    ELSE {proxy_list[i] : i \in 1..Len(proxy_list)} :
          mr' = [IdleRequest EXCEPT !.pc = "loop", !.url = url, !.proxy = proxy]
    /\ mr_calls' = mr_calls + 1
    /\ UNCHANGED <<now, client, sideVars, smartVars, managerVars, configVars, request_history,
                   proxy_list, success_patterns, threadVars>>

\* one pass of `for attempt in range(self.max_retries)`: the pacing delay,
\* the exchange, handle_rate_limit, raise_for_status, and then either the
\* return or the except clause
MR_Attempt ==
    /\ mr.pc = "loop"
    /\ \E d \in AddRequestDelay(request_history, mr.url, now,
                                default_min_delay, default_max_delay),
          x \in Exchanges :
          LET rate_limit == HandleRateLimit(x)
              t == now + d.wait + ExchangeTicks + rate_limit
              e == ErrorOf(x)
              \* `if proxy: kwargs['proxies'] = proxy`
              made == [mr EXCEPT !.last = x, !.sent = @ + 1,
                                 !.proxies = IF mr.proxy # NoProxy THEN mr.proxy ELSE @]
          IN  /\ request_history' = d.history
              /\ hr' = StockDataHeaders(hr)
              /\ IF x.kind = "response" /\ ~IsErrorStatus(x.status)
                 THEN /\ success_patterns' = RecordSuccessPattern(success_patterns, mr.url, t)
                      /\ mr' = [made EXCEPT !.pc = "done", !.response = x,
                                            !.slept = [pacing |-> d.wait,
                                                       retry_after |-> rate_limit,
                                                       backoff |-> 0],
                                            !.total = [pacing |-> @.pacing + d.wait,
                                                       retry_after |-> @.retry_after + rate_limit,
                                                       backoff |-> @.backoff + 0]]
                      /\ now' = t
                      /\ UNCHANGED proxy_list
                 ELSE IF ~ShouldRetry(e, mr.attempt)
                 THEN /\ mr' = [made EXCEPT !.pc = "done", !.ret = e,
                                            !.slept = [pacing |-> d.wait,
                                                       retry_after |-> rate_limit,
                                                       backoff |-> 0],
                                            !.total = [pacing |-> @.pacing + d.wait,
                                                       retry_after |-> @.retry_after + rate_limit,
                                                       backoff |-> @.backoff + 0]]
                      /\ now' = t
                      /\ UNCHANGED <<proxy_list, success_patterns>>
                 ELSE \E delay \in CalculateDelay(mr.attempt) :
                      LET drop == mr.proxy # NoProxy /\ e.cls = "ProxyError"
                      IN  /\ now' = t + delay
                          /\ proxy_list' = IF drop THEN Remove(proxy_list, mr.proxy)
                                           ELSE proxy_list
                          /\ mr' = [made EXCEPT
                                      !.pc = IF mr.attempt + 1 < max_retries
                                             THEN "loop" ELSE "after",
                                      !.attempt = @ + 1,
                                      !.proxy = IF drop THEN NoProxy ELSE @,
                                      !.evicted_at = IF drop THEN mr.sent + 1 ELSE @,
                                      !.slept = [pacing |-> d.wait,
                                                 retry_after |-> rate_limit,
                                                 backoff |-> delay],
                                      !.total = [pacing |-> @.pacing + d.wait,
                                                 retry_after |-> @.retry_after + rate_limit,
                                                 backoff |-> @.backoff + delay]]
                          /\ UNCHANGED success_patterns
    /\ UNCHANGED <<client, pure, px, smartVars, managerVars, configVars, threadVars, mr_calls>>

\* the statement after the loop: raise Exception(...)
MR_Exhausted ==
    /\ mr.pc = "after"
    /\ mr' = [mr EXCEPT !.pc = "done", !.ret = RetriesExhausted]
    /\ UNCHANGED <<now, client, sideVars, smartVars, managerVars, configVars, strategyState,
                   threadVars, mr_calls>>

\* the caller has the response or the exception
MR_Return ==
    /\ mr.pc = "done"
    /\ mr' = IdleRequest
    /\ UNCHANGED <<now, client, sideVars, smartVars, managerVars, configVars, strategyState,
                   threadVars, mr_calls>>

(***************************************************************************)
(* Functions without state, applied to arguments from small sets           *)
(***************************************************************************)
NoApplication == [fn |-> ""]

\* the attempt numbers calculate_delay is applied to: 0..MaxAttempt
MaxAttempt == 6

\* the base_delay arguments: None (self.base_delay) and 2.0
BaseArgs == {NoBase, 2 * Sec}

\* the jitters random.uniform can draw, in percent
Jitters == (100 - jitter_factor)..(100 + jitter_factor)

\* the caller has the result of the function
Returned ==
    /\ pure # NoApplication
    /\ pure' = NoApplication
    /\ UNCHANGED <<now, client, smartVars, managerVars, configVars, strategyVars, hr, px>>

\* calculate_delay
ApplyCalculateDelay ==
    /\ client = "functions"
    /\ pure = NoApplication
    /\ \E attempt \in 0..MaxAttempt, base \in BaseArgs, jitter \in Jitters :
          pure' = [fn |-> "calculate_delay", attempt |-> attempt, base |-> base,
                   jitter |-> jitter, result |-> Delay(attempt, base, jitter)]
    /\ UNCHANGED <<now, client, smartVars, managerVars, configVars, strategyVars, hr, px>>

(***************************************************************************)
(* The quote parsers of the direct-fetch providers.  A text is a sequence  *)
(* of characters; a float is kept in hundredths.                           *)
(***************************************************************************)
\* `sub in text`
Contains(text, sub) ==
    \E i \in 1..(Len(text) - Len(sub) + 1) : SubSeq(text, i, i + Len(sub) - 1) = sub

\* text.split(sep), sep being one character
RECURSIVE Split(_, _)
Split(text, sep) ==
    IF \A i \in 1..Len(text) : text[i] # sep THEN <<text>>
    ELSE LET i == CHOOSE j \in 1..Len(text) :
                      text[j] = sep /\ \A k \in 1..(j - 1) : text[k] # sep
         IN  <<SubSeq(text, 1, i - 1)>> \o Split(SubSeq(text, i + 1, Len(text)), sep)

\* text.strip(chars)
RECURSIVE Strip(_, _)
Strip(text, chars) ==
    IF text # <<>> /\ Head(text) \in chars THEN Strip(Tail(text), chars)
    ELSE IF text # <<>> /\ text[Len(text)] \in chars
         THEN Strip(SubSeq(text, 1, Len(text) - 1), chars)
         ELSE text

\* At with a fault: the fields are counted from 1
At_FromOne(parts, i) == parts[i]

\* parts[i], counted from 0 as Python does
At(parts, i) == parts[i + 1]

\* whether float(text) returns: a text of an optional sign, digits and at most
\* one point, with a digit in it (the payloads hold no exponent, inf or nan);
\* any other text raises ValueError
IsFloatText(text) ==
    LET body == IF text # <<>> /\ Head(text) \in {"-", "+"} THEN Tail(text) ELSE text
        digits == SelectSeq(body, IsDigit)
        points == SelectSeq(body, LAMBDA c : c = ".")
    IN  /\ digits # <<>>
        /\ Len(points) <= 1
        /\ Len(digits) + Len(points) = Len(body)

\* float(text), in hundredths, of a text with at most two decimals
FloatOfText(text) ==
    LET body == IF Head(text) \in {"-", "+"} THEN Tail(text) ELSE text
        halves == Split(body, ".")
        whole == halves[1]
        decimals == IF Len(halves) > 1 THEN halves[2] ELSE <<>>
        padded == SubSeq(decimals \o <<"0", "0">>, 1, 2)
        value == 100 * DigitsValue(whole) + DigitsValue(padded)
    IN  IF Head(text) = "-" THEN 0 - value ELSE value

\* int(x) of a float x in hundredths: rounds towards zero
IntOfFloat(x) == IF x >= 0 THEN x \div 100 ELSE 0 - ((0 - x) \div 100)

\* `float(text) if text else 0`, where float(text) returns
FloatOrZero(text) == IF text # <<>> THEN FloatOfText(text) ELSE 0

\* `float(text) if text and text != '-' else None`; None is the empty set
FloatOrNone(text) == IF text # <<>> /\ text # <<"-">> THEN {FloatOfText(text)} ELSE {}

\* what a parser does: it returns a dict, returns nothing (None, or {}), or an
\* exception leaves it
Parsed(dict) == [kind |-> "dict", dict |-> dict, cls |-> ""]
Nothing(kind) == [kind |-> kind, dict |-> <<>>, cls |-> ""]
Escapes(cls) == [kind |-> "raise", dict |-> <<>>, cls |-> cls]

\* the reply to requests.get / make_request: a body, or a transport error
Body(text) == [kind |-> "body", text |-> text, cls |-> ""]
TransportError(cls) == [kind |-> "error", text |-> <<>>, cls |-> cls]

\* the parsing both Tencent adapters do on response.text, up to the handlers of
\* their outer try blocks: `kind` of Nothing is what the adapter returns when it
\* found no quote
TencentParse(symbol, data) ==
    IF ~(Contains(data, <<"v", "_">>) /\ Contains(data, <<"~">>)) THEN Nothing("none")
    ELSE IF Len(Split(data, "=")) < 2 THEN Escapes("IndexError")
    ELSE
    LET parts == Split(Strip(At(Split(data, "="), 1), {"\"", ";", "\n"}), "~")
        Bad(i) == At(parts, i) # <<>> /\ ~IsFloatText(At(parts, i))
        BadOption(i) == At(parts, i) \notin {<<>>, <<"-">>} /\ ~IsFloatText(At(parts, i))
        result == [symbol |-> symbol, name |-> At(parts, 1),
                   price |-> FloatOrZero(At(parts, 3)),
                   change |-> FloatOrZero(At(parts, 32)),
                   volume |-> IntOfFloat(FloatOrZero(At(parts, 6))),
                   amount |-> FloatOrZero(At(parts, 37)),
                   open |-> FloatOrZero(At(parts, 5)),
                   high |-> FloatOrZero(At(parts, 33)),
                   low |-> FloatOrZero(At(parts, 34)),
                   source |-> "Tencent"]
    IN  IF Len(parts) < 40 THEN Nothing("none")
        ELSE IF \E i \in {3, 32, 6, 37, 5, 33, 34} : Bad(i)
             THEN \* except (ValueError, IndexError): logged
                  Nothing("none")
        ELSE IF Len(parts) <= 45 \/ BadOption(39) THEN Parsed(result)
        ELSE IF BadOption(45)
             THEN Parsed(result @@ ("pe_ratio" :> FloatOrNone(At(parts, 39))))
        ELSE Parsed(result @@ ("pe_ratio" :> FloatOrNone(At(parts, 39)))
                           @@ ("market_value" :> FloatOrNone(At(parts, 45))))

\* SmartStockSource._try_tencent_finance, given the reply to make_request: its
\* outer `except Exception` swallows every exception, and it returns None
TryTencentFinance(symbol, reply) ==
    IF reply.kind = "error" THEN Nothing("None")
    ELSE LET out == TencentParse(symbol, reply.text)
         IN  IF out.kind = "dict" THEN out ELSE Nothing("None")

\* TencentFinanceSource.get_stock_quote, given the outcome of requests.get and
\* raise_for_status: its outer `except Exception` logs and re-raises, and it
\* returns {} when it found no quote
TencentGetStockQuote(symbol, reply) ==
    IF reply.kind = "error" THEN Escapes(reply.cls)
    ELSE LET out == TencentParse(symbol, reply.text)
         IN  IF out.kind = "none" THEN Nothing("empty") ELSE out

\* the fields both Sina adapters cut out of response.text, or the IndexError of
\* split('=')[1]; Nothing when the body is not a quote
SinaParts(data) ==
    IF ~Contains(data, <<"v", "a", "r", " ", "h", "q", "_", "s", "t", "r", "_">>)
    THEN Nothing("none")
    ELSE IF Len(Split(data, "=")) < 2 THEN Escapes("IndexError")
    ELSE Parsed(Split(Strip(At(Split(data, "="), 1), {"\""}), ","))

\* SmartStockSource._try_sina_finance, given the reply to make_request
TrySinaFinance(symbol, reply) ==
    IF reply.kind = "error" THEN Nothing("None")
    ELSE LET cut == SinaParts(reply.text)
             parts == cut.dict
         IN  IF cut.kind # "dict" \/ Len(parts) < 32 THEN Nothing("None")
             ELSE IF \/ \E i \in {3, 9} : At(parts, i) # <<>> /\ ~IsFloatText(At(parts, i))
                     \/ At(parts, 8) # <<>> /\ ~IsIntText(At(parts, 8))
                  THEN Nothing("None")
             ELSE Parsed([symbol |-> symbol, name |-> At(parts, 0),
                          price |-> FloatOrZero(At(parts, 3)),
                          change |-> 0,
                          volume |-> IF At(parts, 8) # <<>> THEN IntOfText(At(parts, 8)) ELSE 0,
                          amount |-> FloatOrZero(At(parts, 9)),
                          source |-> "Sina"])

\* SinaFinanceSource.get_stock_quote, given the outcome of requests.get and
\* raise_for_status: the dict has no 'source' key
SinaGetStockQuote(symbol, reply) ==
    IF reply.kind = "error" THEN Escapes(reply.cls)
    ELSE LET cut == SinaParts(reply.text)
             parts == cut.dict
         IN  IF cut.kind = "raise" THEN cut
             ELSE IF cut.kind = "none" \/ Len(parts) < 32 THEN Nothing("empty")
             ELSE IF \/ \E i \in {1, 3, 4, 5, 9} :
                           At(parts, i) # <<>> /\ ~IsFloatText(At(parts, i))
                     \/ At(parts, 8) # <<>> /\ ~IsIntText(At(parts, 8))
                  THEN Escapes("ValueError")
             ELSE Parsed([symbol |-> symbol, name |-> At(parts, 0),
                          open |-> FloatOrZero(At(parts, 1)),
                          close |-> FloatOrZero(At(parts, 3)),
                          price |-> FloatOrZero(At(parts, 3)),
                          high |-> FloatOrZero(At(parts, 4)),
                          low |-> FloatOrZero(At(parts, 5)),
                          volume |-> IF At(parts, 8) # <<>> THEN IntOfText(At(parts, 8)) ELSE 0,
                          amount |-> FloatOrZero(At(parts, 9)),
                          date |-> At(parts, 30), time |-> At(parts, 31)])

\* ---- the replies the parsers are applied to
\* sep.join(fields)
RECURSIVE Join(_, _)
Join(fields, sep) ==
    IF fields = <<>> THEN <<>>
    ELSE IF Len(fields) = 1 THEN fields[1]
    ELSE fields[1] \o <<sep>> \o Join(Tail(fields), sep)

\* texts a numeric field can hold: numbers, nothing, and no number
NumberTexts == {<<"1", "2", ".", "3", "4">>, <<"-", "1", ".", "5">>, <<>>, <<"a", "b", "c">>}
\* texts of the fields 39 and 45: a number, a dash, and no number
OptionTexts == {<<"5", ".", "5">>, <<"-">>, <<"N", "/", "A">>}

\* a Tencent field list of n fields: the fields the adapters read hold texts of
\* their own, every other field holds "0"
TencentFields(n, price, pe, mv) ==
    [k \in 1..n |->
        CASE k - 1 = 1 -> <<"P", "A">>
          [] k - 1 = 3 -> price
          [] k - 1 = 5 -> <<"1", "1", ".", "5">>
          [] k - 1 = 6 -> <<"6", "0", "0", ".", "9">>
          [] k - 1 = 32 -> <<"-", "0", ".", "3", "2">>
          [] k - 1 = 33 -> <<"3", "3">>
          [] k - 1 = 34 -> <<"3", ".", "4">>
          [] k - 1 = 37 -> <<"3", "7", "0">>
          [] k - 1 = 38 -> <<"3", "8">>
          [] k - 1 = 39 -> pe
          [] k - 1 = 45 -> mv
          [] OTHER -> <<"0">>]

\* the numbers of fields: too few, the least accepted, with field 39 but not
\* field 45, and with both
TencentLengths == {3, 39, 40, 45, 46, 47}

\* how the field list is wrapped: as the endpoint does (v_sz="...";), without
\* the equals sign, and an error page
Wrappings == {"quote", "no equals", "page"}
TencentBody(wrapping, fields) ==
    CASE wrapping = "quote" ->
            <<"v", "_", "s", "z", "=", "\"">> \o Join(fields, "~") \o <<"\"", ";", "\n">>
      [] wrapping = "no equals" -> <<"v", "_", "s", "z">> \o Join(fields, "~")
      [] wrapping = "page" -> <<"<", "h", "t", "m", "l", ">">>

\* a Sina field list of n fields
SinaFields(n, open, price, volume) ==
    [k \in 1..n |->
        CASE k - 1 = 0 -> <<"P", "A">>
          [] k - 1 = 1 -> open
          [] k - 1 = 2 -> <<"2", ".", "5">>
          [] k - 1 = 3 -> price
          [] k - 1 = 4 -> <<"4", "4">>
          [] k - 1 = 5 -> <<"5", ".", "5">>
          [] k - 1 = 8 -> volume
          [] k - 1 = 9 -> <<"9", "0", "0">>
          [] OTHER -> <<"0">>]

SinaLengths == {1, 31, 32, 33}
VolumeTexts == {<<"8", "0", "0">>, <<"8", "0", "0", ".", "5">>, <<>>}
SinaBody(wrapping, fields) ==
    LET var == <<"v", "a", "r", " ", "h", "q", "_", "s", "t", "r", "_", "s", "z">>
    IN  CASE wrapping = "quote" -> var \o <<"=", "\"">> \o Join(fields, ",") \o <<"\"">>
          [] wrapping = "no equals" -> var \o Join(fields, ",")
          [] wrapping = "page" -> <<"<", "h", "t", "m", "l", ">">>

\* the transport errors requests.get and raise_for_status raise
FetchErrors == {"ConnectionError", "HTTPError"}

TencentReplies ==
    {TransportError(cls) : cls \in FetchErrors}
      \cup {Body(TencentBody(w, TencentFields(n, price, pe, mv))) :
              w \in Wrappings, n \in TencentLengths, price \in NumberTexts,
              pe \in OptionTexts, mv \in OptionTexts}

SinaReplies ==
    {TransportError(cls) : cls \in FetchErrors}
      \cup {Body(SinaBody(w, SinaFields(n, open, price, volume))) :
              w \in Wrappings, n \in SinaLengths, open \in NumberTexts,
              price \in NumberTexts, volume \in VolumeTexts}

\* one of the four parsers is applied to a reply and has the result
ApplyParser(fn, symbol, reply, result) ==
    /\ client = "functions"
    /\ pure = NoApplication
    /\ pure' = [fn |-> fn, symbol |-> symbol, reply |-> reply, result |-> result]
    /\ UNCHANGED <<now, client, smartVars, managerVars, configVars, strategyVars, hr, px>>

ApplyTryTencentFinance ==
    \E symbol \in Symbols, reply \in TencentReplies :
        ApplyParser("_try_tencent_finance", symbol, reply,
                    TryTencentFinance(symbol, reply))

ApplyTencentGetStockQuote ==
    \E symbol \in Symbols, reply \in TencentReplies :
        ApplyParser("TencentFinanceSource.get_stock_quote", symbol, reply,
                    TencentGetStockQuote(symbol, reply))

ApplyTrySinaFinance ==
    \E symbol \in Symbols, reply \in SinaReplies :
        ApplyParser("_try_sina_finance", symbol, reply, TrySinaFinance(symbol, reply))

ApplySinaGetStockQuote ==
    \E symbol \in Symbols, reply \in SinaReplies :
        ApplyParser("SinaFinanceSource.get_stock_quote", symbol, reply,
                    SinaGetStockQuote(symbol, reply))

(***************************************************************************)
(* The clock, and the specification of the two orchestrators               *)
(***************************************************************************)
\* how many cache lifetimes a run of the model lasts
MaxLifetimes == 2

\* the steps in which time passes between and during calls
ClockSteps == {cache_ttl \div 2}

Tick ==
    /\ \E d \in ClockSteps :
          /\ now + d <= StartTime + MaxLifetimes * cache_ttl
          /\ now' = now + d
    /\ UNCHANGED <<client, sideVars, strategyVars, smartVars, managerVars, configVars>>

\* the state after the constructors
Constructed ==
    /\ now = StartTime
    /\ cache = [k \in CacheKeys |-> NoEntry]
    /\ s_pc = "idle"
    /\ s_op = "quote"
    /\ s_symbol = CHOOSE sym \in Symbols : TRUE
    /\ s_i = 1
    /\ s_ret = NoneV
    /\ s_caller = "user"
    /\ s_called = <<>>
    /\ s_result = NoneV
    /\ s_start = 0
    /\ prev = [k \in CacheKeys |-> NoCall]
    /\ current_source = "smart"
    /\ last_request_time = 0
    /\ request_count = 0
    /\ min_interval = Sec \div 2
    /\ max_interval = 2 * Sec
    /\ m_pc = "idle"
    /\ m_op = "quote"
    /\ m_source = NoSource
    /\ m_symbol = CHOOSE sym \in Symbols : TRUE
    /\ m_i = 1
    /\ m_attempt = 0
    /\ m_ret = NoneV
    /\ m_called = <<>>
    /\ m_out = NoneV
    /\ rc_cache = [k \in RcCacheKeys |-> Absent]
    /\ rc_cache_timestamps = [k \in RcCacheKeys |-> NoTime]
    /\ rc_pc = "idle"
    /\ rc_key = "k1"
    /\ rc_expiry = 0
    /\ rc_time = 0
    /\ rc_ret = Absent
    /\ last_request_times = [api \in Apis |-> NoTime]
    /\ rl = IdleLimiter
    /\ request_history = [url \in Keys |-> NoTime]
    /\ proxy_list = <<>>
    /\ success_patterns = [url \in Urls |-> NoPattern]
    /\ th = [t \in Threads |-> IdleThread]
    /\ calls = 0
    /\ passed = [t \in Threads |-> NoPass]
    /\ pair = [url \in Keys \cup {"last_request_time"} |-> NoPair]
    /\ mr = IdleRequest
    /\ mr_calls = 0
    /\ hr = IF client \in {"rotator", "rotator threads"} THEN NewRotator
            ELSE PoolInitialised
    /\ pure = NoApplication
    /\ px = NoProxies

Init ==
    /\ client \in {"smart", "manager", "named", "config"}
    /\ Constructed

Next ==
    \/ S_Call \/ S_Skip \/ S_Try \/ S_Exhausted \/ S_Return \/ ClearCache
    \/ M_Call \/ M_CallNamed \/ M_Wait \/ M_Invoke \/ M_InvokeSmart \/ M_Resume \/ M_Exhausted \/ M_Return
    \/ RC_Get \/ RC_Done \/ RC_Set \/ RC_Clear
    \/ Tick

Spec == Init /\ [][Next]_vars

(***************************************************************************)
(* The specification of RequestConfig's frequency limit                    *)

\* a caller that changes the pacing interval between orchestrator calls; time
\* passes in the sleeps of the calls
InitIntervals ==
    /\ client = "intervals"
    /\ Constructed

NextIntervals ==
    \/ M_SetTimeInterval
    \/ M_Call \/ M_Wait \/ M_Invoke \/ M_InvokeSmart \/ M_Resume \/ M_Exhausted \/ M_Return
    \/ S_Skip \/ S_Try \/ S_Exhausted

SpecIntervals == InitIntervals /\ [][NextIntervals]_vars

\* the orchestrator calls and make_request under the condition that every
\* provider invocation and every sleep returns: a step that a running call
\* can take is eventually taken.  The callers themselves are under no
\* obligation: M_Call, M_CallNamed, MR_Call and the two returns are not fair.
InitTermination ==
    /\ client \in {"manager", "named", "request"}
    /\ Constructed

OrchestratorStep ==
    \/ M_Wait \/ M_Invoke \/ M_InvokeSmart \/ M_Resume \/ M_Exhausted
    \/ S_Skip \/ S_Try \/ S_Exhausted

MakeRequestStep == MR_Attempt \/ MR_Exhausted

NextTermination ==
    \/ M_Call \/ M_CallNamed \/ M_Wait \/ M_Invoke \/ M_InvokeSmart \/ M_Resume
    \/ M_Exhausted \/ M_Return
    \/ S_Skip \/ S_Try \/ S_Exhausted
    \/ AddProxy \/ MR_Call \/ MR_Attempt \/ MR_Exhausted \/ MR_Return

SpecTermination ==
    /\ InitTermination
    /\ [][NextTermination]_vars
    /\ WF_vars(OrchestratorStep)
    /\ WF_vars(MakeRequestStep)


(***************************************************************************)
InitLimiter ==
    /\ client = "limiter"
    /\ Constructed

NextLimiter ==
    \/ SW_ShouldWait \/ SW_RecordRequest
    \/ LimiterTick

SpecLimiter == InitLimiter /\ [][NextLimiter]_vars

\* callers of a function decorated with rate_limited
InitWrapper ==
    /\ client = "wrapper"
    /\ Constructed

NextWrapper ==
    \/ RL_Call \/ RL_Func \/ RL_Return
    \/ LimiterTick

SpecWrapper == InitWrapper /\ [][NextWrapper]_vars

(***************************************************************************)
(* The specification of the threads that pace their requests               *)
(***************************************************************************)
InitPacing ==
    /\ client \in {"thread", "threads", "manager threads"}
    /\ Constructed

NextPacing ==
    \/ \E t \in Threads : ARD_Begin(t)
    \/ \E t \in Threads : ARD_Read(t)
    \/ \E t \in Threads : ARD_Wake(t)
    \/ \E t \in Threads : ARD_Write(t)
    \/ \E t \in Threads : WRI_Begin(t)
    \/ \E t \in Threads : WRI_Read(t)
    \/ \E t \in Threads : WRI_Wake(t)
    \/ \E t \in Threads : WRI_Write(t)
    \/ \E t \in Threads : WRI_Count(t)
    \/ \E t \in Threads : ARD_Cancel(t)
    \/ \E t \in Threads : WRI_Cancel(t)
    \/ ThreadTick

SpecPacing == InitPacing /\ [][NextPacing]_vars

(***************************************************************************)
(* The quote functions of SmartStockSource called one after another, for   *)
(* one symbol or another, each pacing its request through the strategy.    *)
(***************************************************************************)
InitProviders ==
    /\ client = "providers"
    /\ Constructed

NextProviders ==
    \/ \E t \in Threads : ARD_BeginProvider(t)
    \/ \E t \in Threads : ARD_Read(t)
    \/ \E t \in Threads : ARD_Wake(t)
    \/ \E t \in Threads : ARD_Write(t)
    \/ ThreadTick

SpecProviders == InitProviders /\ [][NextProviders]_vars

(***************************************************************************)
(* The specification of make_request                                       *)
(***************************************************************************)
InitRequest ==
    /\ client = "request"
    /\ Constructed

NextRequest ==
    \/ AddProxy \/ MR_Call \/ MR_Attempt \/ MR_Exhausted \/ MR_Return

SpecRequest == InitRequest /\ [][NextRequest]_vars

(***************************************************************************)
(* The specification of HeaderRotator                                      *)
(***************************************************************************)
InitRotator ==
    /\ client = "rotator"
    /\ Constructed

NextRotator == HR_GetHeaders

SpecRotator == InitRotator /\ [][NextRotator]_vars

(***************************************************************************)
(* Threads calling get_headers of one HeaderRotator.  get_headers takes no *)
(* lock: the read and the write of `self.request_count += 1` and of        *)
(* `self.current_index = (self.current_index + 1) % ...` are steps of      *)
(* their own, as is every other read of a field.                           *)
(***************************************************************************)
\* how many calls of get_headers the threads make
MaxRotatorCalls == 11

\* the read of self.request_count that `self.request_count += 1` starts with
HRT_Begin(t) ==
    /\ client = "rotator threads"
    /\ th[t].pc = "idle"
    /\ calls < MaxRotatorCalls
    /\ th' = [th EXCEPT ![t] = [IdleThread EXCEPT !.pc = "count",
                                                  !.fn = "get_headers",
                                                  !.count = hr.request_count]]
    /\ calls' = calls + 1
    /\ UNCHANGED <<now, client, sideVars, smartVars, managerVars, configVars, strategyState,
                   passed, pair, mr, mr_calls>>

\* the write that `self.request_count += 1` ends with
HRT_Count(t) ==
    /\ th[t].pc = "count"
    /\ th[t].fn = "get_headers"
    /\ hr' = [hr EXCEPT !.request_count = th[t].count + 1]
    /\ th' = [th EXCEPT ![t].pc = "test"]
    /\ UNCHANGED <<now, client, pure, px, smartVars, managerVars, configVars, strategyState,
                   calls, passed, pair, mr, mr_calls>>

\* `if self.request_count % self.rotation_interval == 0`, and the read of
\* self.current_index that the assignment starts with
HRT_Test(t) ==
    /\ th[t].pc = "test"
    /\ th[t].fn = "get_headers"
    /\ th' = [th EXCEPT ![t].pc = IF hr.request_count % rotation_interval = 0
                                  THEN "rotate" ELSE "return",
                        ![t].index = hr.current_index]
    /\ UNCHANGED <<now, client, sideVars, smartVars, managerVars, configVars, strategyState,
                   calls, passed, pair, mr, mr_calls>>

\* the write of `self.current_index = (self.current_index + 1) % len(...)`
HRT_Rotate(t) ==
    /\ th[t].pc = "rotate"
    /\ th[t].fn = "get_headers"
    /\ hr' = [hr EXCEPT !.current_index = (th[t].index + 1) % Len(user_agents)]
    /\ th' = [th EXCEPT ![t].pc = "return"]
    /\ UNCHANGED <<now, client, pure, px, smartVars, managerVars, configVars, strategyState,
                   calls, passed, pair, mr, mr_calls>>

\* `headers['User-Agent'] = self.user_agents[self.current_index]`, and the
\* return of the headers
HRT_Return(t) ==
    /\ th[t].pc = "return"
    /\ th[t].fn = "get_headers"
    /\ \E header_type \in HeaderTypes :
          \E built \in BuiltHeaders(header_type) :
              hr' = [hr EXCEPT !.kind = built.kind,
                               !.user_agent = user_agents[hr.current_index + 1]]
    /\ th' = [th EXCEPT ![t] = IdleThread]
    /\ UNCHANGED <<now, client, pure, px, smartVars, managerVars, configVars, strategyState,
                   calls, passed, pair, mr, mr_calls>>

InitRotatorThreads ==
    /\ client = "rotator threads"
    /\ Constructed

NextRotatorThreads ==
    \/ \E t \in Threads : HRT_Begin(t)
    \/ \E t \in Threads : HRT_Count(t)
    \/ \E t \in Threads : HRT_Test(t)
    \/ \E t \in Threads : HRT_Rotate(t)
    \/ \E t \in Threads : HRT_Return(t)

SpecRotatorThreads == InitRotatorThreads /\ [][NextRotatorThreads]_vars

(***************************************************************************)
(* Threads in make_request for one url, each with a response that passed   *)
(* raise_for_status, calling _record_success_pattern.  The function takes  *)
(* no lock: the membership test, the creation of the entry, the read and   *)
(* the write of `['success_count'] += 1` and the write of last_success are *)
(* steps of their own.  The strategy is new: nothing has been recorded     *)
(* since it was constructed or reset.                                      *)
(***************************************************************************)
RecordedUrl == "test_url_1"

\* make_request has a successful response and calls _record_success_pattern
RSP_Begin(t) ==
    /\ client = "recorders"
    /\ th[t].pc = "idle"
    /\ calls < MaxCalls
    /\ th' = [th EXCEPT ![t] = [IdleThread EXCEPT !.pc = "check",
                                                  !.fn = "_record_success_pattern",
                                                  !.url = RecordedUrl]]
    /\ calls' = calls + 1
    /\ UNCHANGED <<now, client, sideVars, smartVars, managerVars, configVars, strategyState,
                   passed, pair, mr, mr_calls>>

\* `if url not in self.success_patterns`
RSP_Check(t) ==
    /\ th[t].pc = "check"
    /\ th[t].fn = "_record_success_pattern"
    /\ th' = [th EXCEPT ![t].pc = IF success_patterns[th[t].url].present
                                  THEN "load" ELSE "init"]
    /\ UNCHANGED <<now, client, sideVars, smartVars, managerVars, configVars, strategyState,
                   calls, passed, pair, mr, mr_calls>>

\* `self.success_patterns[url] = {'success_count': 0, 'last_success': 0, ...}`
RSP_Init(t) ==
    /\ th[t].pc = "init"
    /\ th[t].fn = "_record_success_pattern"
    /\ success_patterns' = [success_patterns EXCEPT ![th[t].url] =
                               [success_count |-> 0, last_success |-> 0,
                                present |-> TRUE]]
    /\ th' = [th EXCEPT ![t].pc = "load"]
    /\ UNCHANGED <<now, client, sideVars, smartVars, managerVars, configVars,
                   request_history, proxy_list, calls, passed, pair, mr, mr_calls>>

\* the read that `self.success_patterns[url]['success_count'] += 1` starts with
RSP_Load(t) ==
    /\ th[t].pc = "load"
    /\ th[t].fn = "_record_success_pattern"
    /\ th' = [th EXCEPT ![t].pc = "store",
                        ![t].count = success_patterns[th[t].url].success_count]
    /\ UNCHANGED <<now, client, sideVars, smartVars, managerVars, configVars, strategyState,
                   calls, passed, pair, mr, mr_calls>>

\* the write that it ends with
RSP_Store(t) ==
    /\ th[t].pc = "store"
    /\ th[t].fn = "_record_success_pattern"
    /\ success_patterns' = [success_patterns EXCEPT
                               ![th[t].url].success_count = th[t].count + 1]
    /\ th' = [th EXCEPT ![t].pc = "stamp"]
    /\ UNCHANGED <<now, client, sideVars, smartVars, managerVars, configVars,
                   request_history, proxy_list, calls, passed, pair, mr, mr_calls>>

\* `self.success_patterns[url]['last_success'] = time.time()`, and the return
RSP_Stamp(t) ==
    /\ th[t].pc = "stamp"
    /\ th[t].fn = "_record_success_pattern"
    /\ success_patterns' = [success_patterns EXCEPT ![th[t].url].last_success = now]
    /\ th' = [th EXCEPT ![t] = IdleThread]
    /\ UNCHANGED <<now, client, sideVars, smartVars, managerVars, configVars,
                   request_history, proxy_list, calls, passed, pair, mr, mr_calls>>

InitRecorders ==
    /\ client = "recorders"
    /\ Constructed

NextRecorders ==
    \/ \E t \in Threads : RSP_Begin(t)
    \/ \E t \in Threads : RSP_Check(t)
    \/ \E t \in Threads : RSP_Init(t)
    \/ \E t \in Threads : RSP_Load(t)
    \/ \E t \in Threads : RSP_Store(t)
    \/ \E t \in Threads : RSP_Stamp(t)

SpecRecorders == InitRecorders /\ [][NextRecorders]_vars

(***************************************************************************)
(* The proxy pool: add_proxy and get_proxy called one after the other, and *)
(* threads in make_request that hold a proxy of the pool.  When the        *)
(* attempt of such a thread fails with a ProxyError that should_retry lets *)
(* it retry, its except clause sleeps and then removes the proxy from      *)
(* self.proxy_list; nothing takes a lock.                                  *)
(***************************************************************************)
PX_AddProxy ==
    /\ client = "proxies"
    /\ \E proxy \in ProxyPool :
          /\ proxy_list' = AddedProxy(proxy_list, proxy)
          /\ px' = [px EXCEPT !.added = @ \cup {proxy}]
    /\ UNCHANGED <<now, client, hr, pure, smartVars, managerVars, configVars, request_history,
                   success_patterns, threadVars, mr, mr_calls>>

PX_GetProxy ==
    /\ client = "proxies"
    /\ px.got = NotAsked
    /\ \E proxy \in GetProxy(proxy_list) : px' = [px EXCEPT !.got = proxy]
    /\ UNCHANGED <<now, client, hr, pure, smartVars, managerVars, configVars, strategyVars>>

\* the caller has the value
PX_Got ==
    /\ px.got # NotAsked
    /\ px' = [px EXCEPT !.got = NotAsked]
    /\ UNCHANGED <<now, client, hr, pure, smartVars, managerVars, configVars, strategyVars>>

\* make_request up to its loop: `proxy = self.get_proxy()`
PXT_Call(t) ==
    /\ client = "proxies"
    /\ th[t].pc = "idle"
    /\ calls < MaxProxyCalls
    /\ \E proxy \in GetProxy(proxy_list) :
          th' = [th EXCEPT ![t] = [IdleThread EXCEPT
                     !.pc = "attempt", !.fn = "make_request",
                     !.provider = IF proxy.kind = "None" THEN NoProxy ELSE proxy.http]]
    /\ calls' = calls + 1
    /\ UNCHANGED <<now, client, sideVars, smartVars, managerVars, configVars, strategyState,
                   passed, pair, mr, mr_calls>>

\* the first attempt: a response that is returned, or, through the proxy, a
\* ProxyError, after which the except clause sleeps calculate_delay(0)
PXT_Attempt(t) ==
    /\ th[t].pc = "attempt"
    /\ th[t].fn = "make_request"
    /\ \E outcome \in IF th[t].provider = NoProxy THEN {"response"}
                      ELSE {"response", "ProxyError"} :
          th' = [th EXCEPT ![t] = IF outcome = "response" THEN IdleThread
                                  ELSE [@ EXCEPT !.pc = "evict"]]
    /\ UNCHANGED <<now, client, sideVars, smartVars, managerVars, configVars, strategyState,
                   calls, passed, pair, mr, mr_calls>>

\* `self.proxy_list.remove(proxy.get('http', ''))` and `proxy = None`;
\* list.remove raises ValueError when the list has no such element, and the
\* except clause it is in lets that leave make_request
PXT_Evict(t) ==
    /\ th[t].pc = "evict"
    /\ th[t].fn = "make_request"
    /\ IF InList(proxy_list, th[t].provider)
       THEN /\ proxy_list' = Remove(proxy_list, th[t].provider)
            /\ px' = [px EXCEPT !.added = @ \ {th[t].provider}]
            /\ th' = [th EXCEPT ![t].pc = "next", ![t].provider = NoProxy]
       ELSE /\ th' = [th EXCEPT ![t].pc = "ValueError"]
            /\ UNCHANGED <<proxy_list, px>>
    /\ UNCHANGED <<now, client, hr, pure, smartVars, managerVars, configVars, request_history,
                   success_patterns, calls, passed, pair, mr, mr_calls>>

\* the call goes on to its second attempt, or the ValueError reaches its caller
PXT_Leave(t) ==
    /\ th[t].pc \in {"next", "ValueError"}
    /\ th[t].fn = "make_request"
    /\ th' = [th EXCEPT ![t] = IdleThread]
    /\ UNCHANGED <<now, client, sideVars, smartVars, managerVars, configVars, strategyState,
                   calls, passed, pair, mr, mr_calls>>

InitProxies ==
    /\ client = "proxies"
    /\ Constructed

NextProxies ==
    \/ PX_AddProxy \/ PX_GetProxy \/ PX_Got
    \/ \E t \in Threads : PXT_Call(t)
    \/ \E t \in Threads : PXT_Attempt(t)
    \/ \E t \in Threads : PXT_Evict(t)
    \/ \E t \in Threads : PXT_Leave(t)

SpecProxies == InitProxies /\ [][NextProxies]_vars

(***************************************************************************)
(* The specification of the functions without state                        *)
(***************************************************************************)
InitFunctions ==
    /\ client = "functions"
    /\ Constructed

NextFunctions ==
    \/ ApplyCalculateDelay
    \/ ApplyTryTencentFinance \/ ApplyTencentGetStockQuote
    \/ ApplyTrySinaFinance \/ ApplySinaGetStockQuote
    \/ Returned

SpecFunctions == InitFunctions /\ [][NextFunctions]_vars

(***************************************************************************)
(* Properties of the orchestrators                                         *)
(***************************************************************************)
\* a dict with data, as opposed to None, {} and a raised exception
NonEmpty(v) == v.kind \in {"quote", "info", "basic_info", "frame"}

\* the functions among the first n of data_sources that operation op calls
Applied(op, n) == SelectSeq(SubSeq(data_sources, 1, n), LAMBDA f : Applies(op, f))

\* the position of a name in a sequence without repetitions
Pos(order, name) == CHOOSE j \in 1..Len(order) : order[j] = name

\* `called` walks through `order` from its first element without a gap and
\* without going back (an element may be called several times in a row)
InOrder(called, order) ==
    \/ called = <<>>
    \/ /\ Pos(order, called[1]) = 1
       /\ \A k \in 1..(Len(called) - 1) :
             Pos(order, called[k + 1]) - Pos(order, called[k]) \in {0, 1}

Last(seq) == seq[Len(seq)]

\* the cache key of the running SmartStockSource call
s_key == CacheKey(s_op, s_symbol)

\* C1 (as stated): as soon as a provider returns a non-empty result the call
\* returns it: a call that is still going through its providers has, so far,
\* got no non-empty result from any of them.
C1_NonEmptyResultEndsTheCall ==
    /\ s_pc = "loop" => ~NonEmpty(s_result)
    /\ m_pc \in {"wait", "invoke", "await"} => ~NonEmpty(m_out)

\* C1 (amended): in a call without a source name, providers are invoked strictly in the configured order, and as
\* soon as one returns a result the orchestrator accepts (DataSourceManager: any
\* non-empty result; SmartStockSource.get_stock_quote: a non-empty result whose
\* price is not zero) the call returns exactly that result and no later
\* provider is invoked.
C1_FirstAcceptedResultEndsTheCall ==
    /\ m_source = NoSource => InOrder(m_called, fallback_order)
    /\ s_pc = "loop" =>
          /\ s_called = Applied(s_op, s_i - 1)
          /\ ~(NonEmpty(s_result) /\ (s_op = "quote" => s_result.price # 0))
    /\ s_pc = "return" /\ s_called # <<>> /\ s_i <= Len(data_sources) =>
          /\ s_called = Applied(s_op, s_i)
          /\ Last(s_called) = data_sources[s_i]
          /\ s_ret = s_result
          /\ NonEmpty(s_result) /\ (s_op = "quote" => s_result.price # 0)
    /\ s_pc = "return" /\ s_i > Len(data_sources) =>
          s_called = Applied(s_op, Len(data_sources))
    /\ m_pc \in {"wait", "invoke", "await"} => ~NonEmpty(m_out)
    /\ m_pc = "wait" /\ m_called # <<>> => Last(m_called) = fallback_order[m_i - 1]
    /\ m_pc = "return" /\ m_source = NoSource =>
          /\ Last(m_called) = fallback_order[m_i]
          /\ m_ret = m_out
          /\ NonEmpty(m_out)

\* C1 witness: provider[0] ('smart') gave nothing, provider[1] returned a quote,
\* which is the result; 'sina' and 'akshare' were not invoked.
C1_Witness ==
    /\ m_pc = "return"
    /\ m_called = <<"smart", "tencent">>
    /\ m_ret = Quote("Tencent", m_symbol, 1234)

C4_ExpiredEntryNeverReturned ==
    /\ s_pc = "return" /\ s_called = <<>> =>
          /\ cache[s_key] # NoEntry
          /\ s_start - cache[s_key].time < cache_ttl
          /\ s_ret = cache[s_key].data
    /\ rc_pc = "got" /\ rc_ret # Absent =>
          /\ rc_cache_timestamps[rc_key] # NoTime
          /\ rc_time - rc_cache_timestamps[rc_key] < rc_expiry
          /\ rc_ret = rc_cache[rc_key]

\* C4 witness: a lookup finds an entry whose age is exactly the TTL, and the
\* call goes to the source functions instead of returning it.
C4_Witness ==
    /\ s_pc = "loop"
    /\ cache[s_key] # NoEntry
    /\ s_start - cache[s_key].time = cache_ttl

\* C5 (as stated): of two calls for the same (operation, symbol) made within
\* the TTL at most one calls the source functions, and the second returns what
\* the first returned.
C5_TwoCallsWithinTtl ==
    s_pc = "return" /\ prev[s_key] # NoCall /\ s_start - prev[s_key].at < cache_ttl =>
        /\ ~(prev[s_key].fetched /\ s_called # <<>>)
        /\ s_ret = prev[s_key].ret

\* C5 (amended): when a call obtained its result from a source function (and so
\* cached it), a second call for the same (operation, symbol) made within the
\* TTL, with no clear_cache in between, calls no source function and returns
\* what the first returned.
C5_SecondCallServedFromCache ==
    ( /\ s_pc = "return"
      /\ prev[s_key] # NoCall
      /\ prev[s_key].fetched
      /\ prev[s_key].ret.kind \in {"quote", "info"}
      /\ s_start - prev[s_key].at < cache_ttl )
    => /\ s_called = <<>>
       /\ s_ret = prev[s_key].ret

\* C5 witness: half a TTL after a call that fetched a quote, a second call
\* returns without calling a source function.
C5_Witness ==
    /\ s_pc = "return"
    /\ prev[s_key].fetched
    /\ prev[s_key].ret.kind = "quote"
    /\ s_start - prev[s_key].at = cache_ttl \div 2
    /\ s_called = <<>>

(***************************************************************************)
(* Properties of the pacing                                                *)
(***************************************************************************)
Abs(n) == IF n < 0 THEN 0 - n ELSE n

\* C6: in a sequence of calls of add_request_delay under one key with minimum
\* interval m, made one after the other by one thread, every call returns at
\* least m after the previous call under that key returned.
C6_ConsecutiveCallsAtLeastMinApart ==
    client = "thread" =>
        \A url \in Urls :
            (pair[url].prev # NoTime /\ pair[url].prev_min = pair[url].min_delay)
                => pair[url].last - pair[url].prev >= pair[url].min_delay

\* C7: two concurrent callers of add_request_delay (or of _wait_random_interval)
\* under the same key never both pass without waiting inside one min_interval
\* window: of two calls that did not wait, one was made at least the minimum
\* interval after the other.
C7_NeverBothPassWithoutWaiting ==
    \A t1, t2 \in Threads :
        (/\ t1 # t2
         /\ passed[t1].fn # ""
         /\ passed[t1].fn = passed[t2].fn
         /\ passed[t1].url = passed[t2].url
         /\ passed[t1].min_delay = passed[t2].min_delay
         /\ ~passed[t1].waited
         /\ ~passed[t2].waited)
            => Abs(passed[t1].at - passed[t2].at) >= passed[t1].min_delay

(***************************************************************************)
(* Properties of make_request                                              *)
(***************************************************************************)
\* the call a pacing call is made for: the key of an add_request_delay call,
\* the symbol of the manager's call that reached _wait_random_interval
Who(t) == IF th[t].fn = "add_request_delay" THEN th[t].url ELSE th[t].symbol

Retryable(x) ==
    \/ x.kind = "error"
    \/ x.kind = "response" /\ x.status \in {429, 500, 502, 503, 504}

ClientError(x) == x.kind = "response" /\ x.status \in {400, 401, 403, 404}

\* C8: when max_retries attempts of a make_request call have all failed with a
\* retryable error, make_request raises the error of the last attempt.
C8_ExhaustionRaisesLastError ==
    (mr.pc = "done" /\ mr.sent = max_retries /\ Retryable(mr.last))
        => mr.ret = ErrorOf(mr.last)

\* C9: when an attempt of make_request fails with HTTP 400, 401, 403 or 404,
\* whatever the attempt number, make_request is left at once raising that error:
\* no further attempt follows and no backoff delay is slept.
C9_ClientErrorPropagatesAtOnce ==
    ClientError(mr.last) =>
        /\ mr.pc = "done"
        /\ mr.ret = ErrorOf(mr.last)
        /\ mr.slept.backoff = 0

C9_Witness ==
    /\ mr.pc = "done"
    /\ mr.last = Response(403, NoHeader)
    /\ mr.sent = 3
    /\ mr.ret = [cls |-> "HTTPError", status |-> 403]

\* C10: a 429 response below the retry ceiling is retried; with a
\* Retry-After header the wait is the Retry-After duration and no backoff delay
\* is slept, without one the backoff delay is slept.
C10_RetryAfterInsteadOfBackoff ==
    (mr.last.kind = "response" /\ mr.last.status = 429 /\ mr.sent < max_retries) =>
        /\ mr.pc = "loop"
        /\ mr.last.retry_after.present =>
              (mr.slept.backoff = 0 /\ mr.slept.retry_after > 0)
        /\ ~mr.last.retry_after.present =>
              (mr.slept.retry_after = 0 /\ mr.slept.backoff \in CalculateDelay(mr.attempt - 1))

\* C11: when an attempt of make_request fails with a proxy error, the proxy is
\* removed from proxy_list and every later attempt of that call is sent
\* without any proxy.
C11_LaterAttemptsWithoutProxy ==
    mr.evicted_at > 0 =>
        /\ ~InList(proxy_list, mr.proxies)
        /\ mr.sent > mr.evicted_at => mr.proxies = NoProxy

(***************************************************************************)
(* Properties of calculate_delay                                           *)
(***************************************************************************)
\* C12: for every attempt number a >= 0, calculate_delay(a) is
\* min(max_delay, base_delay * 2^a * jitter) for some jitter in
\* [1 - jitter_factor, 1 + jitter_factor]: it never exceeds max_delay and is
\* never below min(max_delay, base_delay * 2^a * (1 - jitter_factor)).
C12_DelayWithinBounds ==
    pure.fn = "calculate_delay" =>
        LET base == IF pure.base = NoBase THEN 1 * Sec ELSE pure.base
            grown == base * (2 ^ pure.attempt)
        IN  /\ pure.result <= 10 * Sec
            /\ pure.result >= Min(10 * Sec, (grown * (100 - 30)) \div 100)
            /\ pure.result <= (grown * (100 + 30)) \div 100
            /\ \E jitter \in (100 - 30)..(100 + 30) :
                  pure.result = Min(10 * Sec, (grown * jitter) \div 100)

C12_Witness ==
    /\ pure.fn = "calculate_delay"
    /\ pure.attempt = 4
    /\ pure.base = NoBase
    /\ pure.jitter = 70
    /\ pure.result = 10 * Sec

(***************************************************************************)
(* Properties of the time make_request waits                               *)
(***************************************************************************)
\* min(max_delay, base_delay * 2^i * jitter) summed over i in 0..n-1, for the
\* defaults base_delay = 1.0 and max_delay = 10.0
RECURSIVE SumOfDelays(_, _)
SumOfDelays(n, jitter) ==
    IF n = 0 THEN 0
    ELSE SumOfDelays(n - 1, jitter)
         + Min(10 * Sec, (1 * Sec * (2 ^ (n - 1)) * jitter) \div 100)

\* make_request has returned a response after mr.sent - 1 failed attempts
Succeeded == mr.pc = "done" /\ mr.response # NoExchange

\* C13 as stated: for a make_request call that fails N times retryably and then
\* succeeds, the total time spent waiting inside the call is at most the sum
\* over i in 0..N of min(max_delay, base_delay * 2^i * (1 + jitter_factor)).
C13_WaitBoundedByBackoffSum ==
    Succeeded =>
        mr.total.pacing + mr.total.retry_after + mr.total.backoff
            <= SumOfDelays(mr.sent, 100 + 30)

\* C13: for a make_request call that fails N times and then succeeds, the
\* backoff delays slept lie between the sums over i in 0..N-1 of
\* min(max_delay, base_delay * 2^i * (1 - jitter_factor)) and of
\* min(max_delay, base_delay * 2^i * (1 + jitter_factor)), both non-decreasing
\* in N; on top of them the call sleeps the pacing delay of add_request_delay,
\* up to its max_delay (5 s) before each of the N + 1 attempts, and the
\* Retry-After of every rate-limited response.
C13_BackoffWithinSums ==
    Succeeded =>
        /\ mr.total.backoff >= SumOfDelays(mr.sent - 1, 100 - 30)
        /\ mr.total.backoff <= SumOfDelays(mr.sent - 1, 100 + 30)
        /\ mr.total.pacing <= mr.sent * 5 * Sec
        /\ mr.total.retry_after >= 0

C13_Witness ==
    /\ Succeeded
    /\ mr.sent = 4
    /\ mr.total.backoff = SumOfDelays(3, 100 + 30)
    /\ mr.total.pacing > 0
    /\ mr.total.retry_after > 0

\* a provider's exception of the non-retryable client-error class (404)
ClientErrorRaised(out) == out.kind = "raise" /\ out.symbol = "HTTPError404"

\* C14: when a provider raises a non-retryable client error, the current call
\* makes no further attempt against that provider, and the fallback loop is
\* not aborted: the call raises only after the last provider.
C14_ClientErrorAbortsProviderOnly ==
    ClientErrorRaised(m_out) =>
        /\ ~(m_pc = "invoke" /\ fallback_order[m_i] = m_out.source)
        /\ m_pc = "raise" => m_i > Len(fallback_order)

\* C15 as stated: whichever of get_stock_quote, get_stock_info and
\* get_stock_list is called, with or without a source name, the only failure
\* that reaches the caller is the all-sources-failed exception.
C15_OnlyExhaustionSurfaces ==
    m_pc = "raise" => m_ret = AllSourcesFailed(m_op, m_symbol)

\* C15: called without a source name, the three operations swallow the errors
\* of single providers and raise only the all-sources-failed exception; called
\* with the name of a source, they hand on what that source did: its exception
\* once its Retries(op) attempts have all raised, else the value it returned.
C15_NamedSourceErrorSurfaces ==
    /\ m_pc = "raise" /\ m_source = NoSource =>
          m_ret = AllSourcesFailed(m_op, m_symbol)
    /\ m_pc = "raise" /\ m_source # NoSource =>
          /\ m_ret = m_out
          /\ m_out.kind = "raise" /\ m_out.source = m_source
          /\ m_called = [k \in 1..Retries(m_op) |-> m_source]
    /\ m_pc = "return" /\ m_source # NoSource =>
          m_ret = m_out /\ m_out.kind # "raise"

\* C15 witness: get_stock_quote(symbol, 'tencent') raises the ConnectionError
\* of the third attempt.
C15_Witness ==
    /\ m_pc = "raise"
    /\ m_op = "quote" /\ m_source = "tencent"
    /\ m_ret = Raised("tencent", "ConnectionError")
    /\ Len(m_called) = 3

\* C16: a quote that get_stock_quote returns, or holds in its cache, has a
\* price that is not negative, whatever the providers answered.
C16_PriceNeverNegative ==
    /\ s_pc = "return" /\ s_ret.kind = "quote" => s_ret.price >= 0
    /\ m_pc = "return" /\ m_ret.kind = "quote" => m_ret.price >= 0
    /\ \A k \in CacheKeys :
          cache[k] # NoEntry /\ cache[k].data.kind = "quote" => cache[k].data.price >= 0

\* the two Tencent parsers, and the number each text of NumberTexts and
\* OptionTexts stands for, in hundredths
TencentParsers == {"_try_tencent_finance", "TencentFinanceSource.get_stock_quote"}
IsNumber(text) == text \in {<<"1", "2", ".", "3", "4">>, <<"-", "1", ".", "5">>, <<"5", ".", "5">>}
NumberOf(text) ==
    CASE text = <<"1", "2", ".", "3", "4">> -> 1234
      [] text = <<"-", "1", ".", "5">> -> -150
      [] text = <<"5", ".", "5">> -> 550
      [] OTHER -> 0

\* the fields name@1, price@3, open@5, volume@6, change%@32, high@33, low@34
\* and turnover@37 of the dict are those of TencentFields(n, price, pe, mv)
BasicFieldsAtPositions(d, price) ==
    /\ d.name = <<"P", "A">>
    /\ d.price = NumberOf(price)
    /\ d.open = 1150
    /\ d.volume = 600
    /\ d.change = -32
    /\ d.high = 3300
    /\ d.low = 340
    /\ d.amount = 37000

\* C17 as stated: a well-formed Tencent payload parses to a quote whose fields
\* are the payload's fields at name@1, price@3, open@5, volume@6, high@33,
\* low@34, change%@32, turnover@37, and PE@39 and market-value@45 whenever the
\* payload has those fields.
C17_FieldsWheneverPresent ==
    pure.fn \in TencentParsers =>
        \A n \in TencentLengths, price \in NumberTexts, pe \in OptionTexts, mv \in OptionTexts :
            /\ pure.reply = Body(TencentBody("quote", TencentFields(n, price, pe, mv)))
            /\ n >= 40 /\ IsNumber(price) /\ IsNumber(pe) /\ IsNumber(mv)
            => /\ pure.result.kind = "dict"
               /\ BasicFieldsAtPositions(pure.result.dict, price)
               /\ n > 39 => /\ "pe_ratio" \in DOMAIN pure.result.dict
                            /\ pure.result.dict.pe_ratio = {NumberOf(pe)}
               /\ n > 45 => /\ "market_value" \in DOMAIN pure.result.dict
                            /\ pure.result.dict.market_value = {NumberOf(mv)}

\* C17: a Tencent payload of at least 40 fields whose numeric fields are
\* numbers or empty parses to a quote with the payload's fields at name@1,
\* price@3, open@5, volume@6 (cut to an integer), high@33, low@34, change%@32
\* and turnover@37.  PE@39 and market-value@45 are read only when the payload
\* has more than 45 fields: then pe_ratio is field 39 (None when it is empty or
\* a dash) unless it is no number, and market_value is field 45 likewise unless
\* it or field 39 is no number; with 40 to 45 fields the quote has neither.
C17_TencentFieldsAtPositions ==
    pure.fn \in TencentParsers =>
        \A n \in TencentLengths, price \in NumberTexts, pe \in OptionTexts, mv \in OptionTexts :
            /\ pure.reply = Body(TencentBody("quote", TencentFields(n, price, pe, mv)))
            /\ n >= 40 /\ (IsNumber(price) \/ price = <<>>)
            => LET d == pure.result.dict
                   pe_read == n > 45 /\ (IsNumber(pe) \/ pe = <<"-">>)
                   mv_read == pe_read /\ (IsNumber(mv) \/ mv = <<"-">>)
               IN  /\ pure.result.kind = "dict"
                   /\ BasicFieldsAtPositions(d, price)
                   /\ ("pe_ratio" \in DOMAIN d) = pe_read
                   /\ pe_read => d.pe_ratio = (IF IsNumber(pe) THEN {NumberOf(pe)} ELSE {})
                   /\ ("market_value" \in DOMAIN d) = mv_read
                   /\ mv_read => d.market_value = (IF IsNumber(mv) THEN {NumberOf(mv)} ELSE {})

\* C17 witness: _try_tencent_finance has parsed a payload of 47 fields with
\* price 12.34, PE 5.5 and no market value.
C17_Witness ==
    /\ pure.fn = "_try_tencent_finance"
    /\ pure.reply = Body(TencentBody("quote",
                         TencentFields(47, <<"1", "2", ".", "3", "4">>, <<"5", ".", "5">>, <<"-">>)))
    /\ pure.result.kind = "dict"
    /\ pure.result.dict.price = 1234
    /\ pure.result.dict.pe_ratio = {550}
    /\ pure.result.dict.market_value = {}

\* C18: whatever the body of the response, none of the four quote parsers
\* raises: a truncated payload or a malformed field gives an empty result, and
\* only transport errors leave the parser as exceptions.
C18_ParsersNeverRaiseOnBody ==
    pure.fn \in TencentParsers \cup {"_try_sina_finance", "SinaFinanceSource.get_stock_quote"}
        /\ pure.reply.kind = "body"
    => pure.result.kind # "raise"

\* the 'source' values SmartStockSource's quote functions write
SmartLabels == {"Tencent", "Sina", "AKShareSpot", "NetEase"}

\* C19: every quote DataSourceManager.get_stock_quote returns carries a source
\* field naming the provider that produced it: the name of the source of
\* fallback_order that returned it or, for the smart source, the label of the
\* quote function that fetched it.  In particular, when one provider raised
\* and the next returned a quote, the result's source is the latter's name.
C19_QuoteCarriesProviderName ==
    m_pc = "return" /\ m_ret.kind = "quote" =>
        IF Last(m_called) = "smart"
        THEN m_ret.source \in SmartLabels
        ELSE m_ret.source = SourceNames[Last(m_called)]

\* C20 as stated: get_headers moves to the next signature once every 10 calls,
\* wrapping at the end of the pool, so that each signature is shared by 10
\* consecutive calls: calls 1..10 get the first, calls 11..20 the second, and
\* so on; the User-Agent returned is user_agents[current_index].
C20_TenCallsPerSignature ==
    hr.request_count >= 1 =>
        /\ hr.current_index = ((hr.request_count - 1) \div 10) % 12
        /\ hr.user_agent = user_agents[hr.current_index + 1]

\* C20: after n calls of get_headers on a new HeaderRotator current_index is
\* (n div 10) mod 12: the signature advances on every 10th call, which already
\* gets the next one, and wraps after the 12th; so the first signature serves
\* calls 1..9 only and every later one 10 consecutive calls.  The User-Agent
\* returned is user_agents[current_index] for every header type.
C20_SignatureOfCall ==
    hr.request_count >= 1 =>
        /\ hr.current_index = (hr.request_count \div 10) % 12
        /\ hr.user_agent = user_agents[hr.current_index + 1]
        /\ hr.kind \in {"desktop", "mobile", "stock_data"}

\* C20 witness: the 120th call, for mobile headers, is back at the first
\* signature.
C20_Witness ==
    /\ hr.request_count = 120
    /\ hr.current_index = 0
    /\ hr.kind = "mobile"
    /\ hr.user_agent = user_agents[1]

\* C21: when n calls of get_headers have been made in all, from any number of
\* threads, and all have returned, request_count is n and the signature has
\* advanced floor(n / 10) times: no rotation is lost, skipped or made twice.
C21_CounterCountsEveryCall ==
    client = "rotator threads" /\ (\A t \in Threads : th[t].pc = "idle") =>
        /\ hr.request_count = calls
        /\ hr.current_index = (calls \div 10) % 12

\* C22: a pacing key identifies the provider and not the symbol: a request that
\* goes ahead without a wait has no request to the same provider, for whatever
\* symbol, less than min_delay before it.
C22_PacedAcrossSymbols ==
    \A t \in Threads :
        /\ client = "providers"
        /\ th[t].pc = "write"
        /\ ~th[t].waited
        => \A sym \in PacedSymbols :
              LET last == request_history[PacingKey(th[t].provider, sym)]
              IN  last = NoTime \/ th[t].current_time - last >= th[t].min_delay

\* C23: over any sequence and any interleaving of add_request_delay calls the
\* timestamp kept under a key never decreases.
C23_HistoryNeverDecreases ==
    [][\A url \in Keys : request_history'[url] >= request_history[url]]_vars

\* C24: a call that is cancelled inside its pacing wait has still recorded its
\* timestamp: the time kept for its key (for the manager, last_request_time)
\* is not older than the cancelled call.
C24_CancelledCallIsRecorded ==
    \A t \in Threads :
        passed[t].cancelled =>
            IF passed[t].fn = "add_request_delay"
            THEN request_history[passed[t].url] >= passed[t].at
            ELSE last_request_time >= passed[t].at

\* C26: whatever the interleaving of concurrent make_request calls for one
\* url, once they have returned success_patterns[url].success_count is the
\* number of successful responses recorded since the last reset.
C26_SuccessCountIsExact ==
    client = "recorders" /\ (\A t \in Threads : th[t].pc = "idle") =>
        success_patterns[RecordedUrl].success_count = calls

\* C27: when a call of the manager has returned, the statistics report as
\* total the number of provider attempts issued so far and the configured
\* interval band, and the current provider is the one that produced the most
\* recent successful result.
C27_StatsCountAttempts ==
    m_pc = "return" =>
        /\ GetRequestStats.total_requests = Len(m_called)
        /\ GetRequestStats.current_interval = <<Sec \div 2, 2 * Sec>>
        /\ NonEmpty(m_ret) => GetCurrentSource = m_called[Len(m_called)]

\* C28: a well-formed Sina payload of at least 32 fields parses, in both Sina
\* parsers, to a quote whose fields are the payload's fields at name@0, open@1,
\* previous close@2, price@3, high@4, low@5, volume@8, amount@9, date@30 and
\* time@31 (in the payloads applied: 2.5 at 2, 44 at 4, 5.5 at 5, 800 at 8 and
\* 900 at 9).
C28_SinaFieldsAtPositions ==
    pure.fn \in {"_try_sina_finance", "SinaFinanceSource.get_stock_quote"} =>
        \A n \in SinaLengths, open \in NumberTexts, price \in NumberTexts,
           volume \in VolumeTexts :
            LET fields == SinaFields(n, open, price, volume)
                d == pure.result.dict
            IN  /\ pure.reply = Body(SinaBody("quote", fields))
                /\ n >= 32 /\ IsNumber(open) /\ IsNumber(price) /\ IsIntText(volume)
                /\ volume # <<>>
                => /\ pure.result.kind = "dict"
                   /\ {"name", "open", "close", "price", "high", "low", "volume",
                       "amount", "date", "time"} \subseteq DOMAIN d
                   /\ d.name = At(fields, 0)
                   /\ d.open = NumberOf(At(fields, 1))
                   /\ d.close = 250
                   /\ d.price = NumberOf(At(fields, 3))
                   /\ d.high = 4400
                   /\ d.low = 550
                   /\ d.volume = 800
                   /\ d.amount = 90000
                   /\ d.date = At(fields, 30)
                   /\ d.time = At(fields, 31)

\* C29: a call that finds the entry of its (operation, symbol) expired goes to
\* the source functions, and the result it accepts replaces the entry
\* wholesale: the entry becomes exactly that result with the time of the
\* write.  An entry changes in no other way, except that clear_cache empties
\* the cache: at every moment it is the most recent write for its key, never
\* a merge with what was there.
C29_RefreshOverwrites ==
    [][/\ ( /\ s_pc = "idle" /\ s_pc' # "idle"
            /\ cache[CacheKey(s_op', s_symbol')] # NoEntry
            /\ now - cache[CacheKey(s_op', s_symbol')].time >= cache_ttl )
          => s_pc' = "loop"
       /\ \A k \in CacheKeys :
             cache'[k] # cache[k] =>
                \/ cache' = [j \in CacheKeys |-> NoEntry]
                \/ /\ k = s_key
                   /\ s_pc = "loop"
                   /\ SmartAccepts(s_op, s_result')
                   /\ cache'[k] = [time |-> now, data |-> s_result']
                   /\ \A j \in CacheKeys \ {k} : cache'[j] = cache[j]
      ]_vars

\* C29 witness: a call made a TTL or more after the call that cached a quote
\* has fetched a different quote, and the entry is that quote with the time of
\* the fetch.
C29_Witness ==
    /\ s_pc = "return"
    /\ s_op = "quote"
    /\ s_called # <<>>
    /\ prev[s_key].fetched
    /\ prev[s_key].ret.kind = "quote"
    /\ s_start - prev[s_key].at >= cache_ttl
    /\ s_ret.kind = "quote"
    /\ s_ret.price # prev[s_key].ret.price
    /\ cache[s_key] = [time |-> now, data |-> s_ret]

\* a step in which a provider called through _retry_with_backoff has returned
\* or raised: the outcome is m_out'
RetryOutcome ==
    /\ m_op # "list"
    /\ \/ m_pc = "invoke" /\ m_called' # m_called /\ m_pc' # "await"
       \/ m_pc = "await" /\ m_pc' # "await"

\* C30: _retry_with_backoff calls the provider at most three times.  The first
\* result that does not raise is returned at once, an empty one included (the
\* fallback loop then goes on to the next provider, without a retry); after
\* a failed attempt that is not the third it sleeps 2^attempt times 0.5 to 1.5
\* seconds and calls the same provider again; after the third failed attempt
\* it does not sleep and raises that attempt's exception (to the caller when a
\* source was named, to the fallback loop otherwise, which goes on).
C30_RetryWithBackoff ==
    [][RetryOutcome =>
          /\ m_attempt < 3
          /\ Len(SelectSeq(m_called', LAMBDA p : p = fallback_order[m_i])) <= 3
          /\ IF m_out'.kind # "raise"
             THEN /\ now' = now
                  /\ IF m_source # NoSource \/ Truthy(m_out')
                     THEN m_pc' = "return" /\ m_ret' = m_out'
                     ELSE m_pc' = "wait" /\ m_i' = m_i + 1 /\ m_attempt' = 0
             ELSE IF m_attempt < 2
                  THEN /\ now' - now \in {(2 ^ m_attempt) * u : u \in {Sec \div 2, (3 * Sec) \div 2}}
                       /\ m_pc' = "invoke" /\ m_i' = m_i /\ m_attempt' = m_attempt + 1
                  ELSE /\ now' = now
                       /\ IF m_source # NoSource
                          THEN m_pc' = "raise" /\ m_ret' = m_out'
                          ELSE m_pc' = "wait" /\ m_i' = m_i + 1 /\ m_attempt' = 0
      ]_vars

\* C30 witness: the named provider has raised three times, and the exception of
\* the third attempt reaches the caller.
C30_Witness ==
    /\ m_pc = "raise"
    /\ m_source # NoSource
    /\ m_op = "quote"
    /\ Len(m_called) = 3
    /\ m_out.kind = "raise"
    /\ m_ret = m_out

(***************************************************************************)
(* Properties of RequestConfig                                             *)
(***************************************************************************)
\* C31: when every record_request(api) follows a should_wait(api), two
\* consecutive recorded times of an api are at least its interval apart
\* (1.0 s for a name that is no key of request_intervals), and should_wait for
\* a name without a recorded request returns False without waiting.
C31_RecordedTimesAnIntervalApart ==
    [][/\ ( /\ rl.pc = "checked" /\ rl'.pc = "idle" /\ rl.fn = "should_wait"
            /\ last_request_times[rl.api] # NoTime )
          => last_request_times'[rl.api] - last_request_times[rl.api]
                >= (CASE rl.api = "stock_zh_a_spot_em" -> 20
                      [] rl.api = "stock_profile_cninfo" -> 15
                      [] OTHER -> 10)
       /\ ( /\ rl.pc = "idle" /\ rl'.pc = "checked" /\ rl'.fn = "should_wait"
            /\ last_request_times[rl'.api] = NoTime )
          => ~rl'.waited /\ now' = now
      ]_vars

\* C31 witness: should_wait has slept, and the request is recorded exactly an
\* interval after the previous one.
C31_Witness ==
    /\ rl.pc = "checked"
    /\ rl.fn = "should_wait"
    /\ rl.waited
    /\ rl.api = "stock_profile_cninfo"
    /\ now - last_request_times[rl.api] = 15

\* C32: get_cached_data(key, expiry) returns the value set_cached_data stored
\* last under the key while the age of the entry is below expiry, and None
\* when the key was never set, after clear_cache, and once the age has reached
\* expiry; set_cached_data writes the value and the time of the call under its
\* key only, and the keys of cache and cache_timestamps are always the same.
C32_CacheReturnsLatestWhileFresh ==
    [][/\ rc_pc' = "got" =>
             rc_ret' = IF /\ rc_cache'[rc_key'] # Absent
                          /\ rc_time' - rc_cache_timestamps'[rc_key'] < rc_expiry'
                       THEN rc_cache'[rc_key'] ELSE Absent
       /\ \A k \in RcKeys : (rc_cache'[k] = Absent) = (rc_cache_timestamps'[k] = NoTime)
       /\ \A k \in RcKeys :
             (rc_cache'[k] # rc_cache[k] \/ rc_cache_timestamps'[k] # rc_cache_timestamps[k])
             => \/ /\ rc_cache'[k] \in RcData
                   /\ rc_cache_timestamps'[k] = now
                   /\ \A j \in RcKeys \ {k} :
                         /\ rc_cache'[j] = rc_cache[j]
                         /\ rc_cache_timestamps'[j] = rc_cache_timestamps[j]
                \/ \A j \in RcKeys :
                      rc_cache'[j] = Absent /\ rc_cache_timestamps'[j] = NoTime
      ]_vars

\* C32 witness: a lookup with expiry 150 s finds the entry exactly 150 s old and
\* returns None.
C32_Witness ==
    /\ rc_pc = "got"
    /\ rc_cache[rc_key] \in RcData
    /\ rc_time - rc_cache_timestamps[rc_key] = rc_expiry
    /\ rc_ret = Absent

(***************************************************************************)
(* Properties of the proxy pool                                            *)
(***************************************************************************)
\* C33: proxy_list holds every proxy that was added and not evicted since,
\* each exactly once; get_proxy returns None exactly when proxy_list is
\* empty, and otherwise a dict whose http and https entries are one and the
\* same member of proxy_list.
C33_ProxyListHasNoDuplicates ==
    [][/\ \A i, j \in 1..Len(proxy_list') : proxy_list'[i] = proxy_list'[j] => i = j
       /\ {proxy_list'[i] : i \in 1..Len(proxy_list')} = px'.added
       /\ (px.got.kind = "" /\ px'.got.kind # "") =>
             /\ (px'.got.kind = "None") = (proxy_list = <<>>)
             /\ px'.got.kind = "dict" =>
                   /\ px'.got.http = px'.got.https
                   /\ \E i \in 1..Len(proxy_list) : proxy_list[i] = px'.got.http
      ]_vars

\* C33 witness: all three proxies have been added, one of them again after its
\* eviction, and get_proxy has returned one.
C33_Witness ==
    /\ Len(proxy_list) = 3
    /\ proxy_list[3] = "http://127.0.0.1:8080"
    /\ px.got.kind = "dict"

TransientFailure(x) ==
    \/ x.kind = "error"
    \/ x.kind = "response" /\ (x.status = 429 \/ (x.status >= 500 /\ x.status < 600))

SuccessStatus(x) == x.kind = "response" /\ x.status >= 200 /\ x.status < 300

C35_Counts ==
    /\ mr.sent <= max_retries
    /\ mr.pc = "loop" => (mr.sent = mr.attempt /\ mr.attempt < max_retries)
    /\ mr.pc = "after" => mr.sent = max_retries
    /\ Succeeded => (mr.response = mr.last /\ mr.ret = NoError)

C35_Pass ==
    /\ mr.pc = "loop" /\ mr'.pc # "loop" => mr'.sent = mr.sent + 1
    /\ mr.pc = "loop" /\ mr'.pc = "loop" => mr'.sent \in {mr.sent, mr.sent + 1}
    /\ (mr.pc = "loop" /\ mr'.sent = mr.sent + 1) =>
          /\ SuccessStatus(mr'.last) =>
                (mr'.pc = "done" /\ mr'.response = mr'.last)
          /\ (TransientFailure(mr'.last) /\ mr.attempt + 1 < max_retries) =>
                (mr'.pc = "loop" /\ mr'.attempt = mr.attempt + 1)
    /\ mr.pc \in {"after", "done"} => (mr'.sent = mr.sent \/ mr' = IdleRequest)

\* C35: a make_request call sends at most max_retries (5) HTTP requests, one
\* per attempt; the first attempt with a 2xx status ends the call with that
\* response and no further request; a connection error, a timeout, a 429 or
\* a 5xx response on an attempt before the last leads to another attempt.
C35_AtMostMaxRetriesRequests == [][C35_Counts' /\ C35_Pass]_vars

\* the fifth request of a call succeeds after four transient failures
C35_Witness ==
    /\ Succeeded
    /\ SuccessStatus(mr.response)
    /\ mr.sent = max_retries
    /\ mr.attempt = max_retries - 1


\* C36: in make_request a backoff delay is slept only between two attempts:
\* the attempt that ends the call, a non-retryable failure or the
\* max_retries-th failure, is followed by no backoff sleep before the error
\* is raised.
C36_NoBackoffAfterLastAttempt ==
    (mr.pc \in {"after", "done"} /\ ~Succeeded) => mr.slept.backoff = 0


C37_Ordered == Sec \div 10 <= min_interval /\ min_interval <= max_interval

\* the step of _wait_random_interval, and the wait it chose when it chose one
C37_Waits ==
    (m_pc = "wait" /\ m_pc' = "invoke") =>
        IF now - last_request_time < min_interval
        THEN min_interval <= now' - now /\ now' - now <= max_interval
        ELSE now' = now

\* C37: after any sequence of set_time_interval calls with arbitrary
\* arguments, 0.1 s <= min_interval <= max_interval, and every wait that
\* _wait_random_interval chooses lies in [min_interval, max_interval].
C37_IntervalOrderedAndWaitsInside == [][C37_Ordered' /\ C37_Waits]_vars

\* set_time_interval was given a minimum below the floor and a smaller
\* maximum, and the next orchestrator call has waited
C37_Witness ==
    /\ client = "intervals"
    /\ min_interval = Sec \div 10
    /\ max_interval = Sec \div 10
    /\ m_pc = "invoke"
    /\ now = last_request_time
    /\ request_count > 1


(***************************************************************************)
(* Properties of the rate_limited decorator                                *)
(***************************************************************************)
C38_RaiseLeavesStateAlone ==
    (rl.pc = "func" /\ rl'.pc = "raise") =>
        /\ rl'.ret = "Exception"
        /\ rc_cache' = rc_cache
        /\ rc_cache_timestamps' = rc_cache_timestamps
        /\ last_request_times' = last_request_times

C38_WritesFollowSuccess ==
    (rl.fn = "rate_limited"
        /\ (rc_cache' # rc_cache \/ rc_cache_timestamps' # rc_cache_timestamps
                                 \/ last_request_times' # last_request_times)) =>
        /\ rl.pc = "func"
        /\ rl'.pc = "return"
        /\ rl'.ret \in RcData
        /\ rc_cache' = [rc_cache EXCEPT ![rl.key] = rl'.ret]
        /\ rc_cache_timestamps' = [rc_cache_timestamps EXCEPT ![rl.key] = now]
        /\ last_request_times' = [last_request_times EXCEPT ![rl.api] = now]

\* C38: when the function wrapped by rate_limited raises, the exception
\* reaches the caller and cache, cache_timestamps and last_request_times are
\* left as they were; the cache entry and last_request_times[api_name] are
\* written only after the function has returned.
C38_FailedCallWritesNothing == [][C38_RaiseLeavesStateAlone /\ C38_WritesFollowSuccess]_vars

\* the wrapped function raises after should_wait has slept for its api, while
\* the cache holds the result of an earlier call with other arguments
C38_Witness ==
    /\ rl.pc = "raise"
    /\ rl.waited
    /\ rc_cache[rl.key] = Absent
    /\ \E args \in WrappedArgs : rc_cache[WrapperCacheKey(rl.api, args)] \in RcData


(***************************************************************************)
(* Properties of the entries of SmartStockSource.cache                     *)
(***************************************************************************)
\* what the source functions of a SmartStockSource can return for a symbol
Produced(sym) ==
    UNION {TryOutcomes(data_sources[i], sym) : i \in 1..Len(data_sources)}

\* C39: every entry of SmartStockSource.cache is a result a provider
\* returned: a quote entry has a non-zero price, an info entry is a non-empty
\* info; None, {}, an exception and the placeholder basic info are never
\* stored.
C39_CacheHoldsAcceptedResults ==
    \A key \in CacheKeys :
        cache[key] # NoEntry =>
            LET data == cache[key].data
            IN  /\ data.kind = key[1]
                /\ data.symbol = key[2]
                /\ data \in Produced(key[2])
                /\ key[1] = "quote" => data.price # 0
                /\ data.kind \notin {"None", "empty", "raise", "basic_info"}

\* get_stock_info returns the placeholder after its provider failed; the
\* cache holds a quote and no info
C39_Witness ==
    /\ s_pc = "return"
    /\ s_op = "info"
    /\ s_ret = BasicInfo(s_symbol)
    /\ s_called # <<>>
    /\ cache[CacheKey("info", s_symbol)] = NoEntry
    /\ cache[CacheKey("quote", s_symbol)] # NoEntry


(***************************************************************************)
(* Termination of the orchestrator calls                                   *)
(***************************************************************************)
Running == m_pc \notin {"idle", "return", "raise"}
Ended == m_pc \in {"return", "raise"}

\* C40: every orchestrator call terminates.  When every provider invocation
\* and every sleep returns, a running get_stock_quote / get_stock_info of
\* DataSourceManager eventually returns or raises, having invoked providers
\* at most Len(fallback_order) * 3 times, and a running make_request ends
\* after at most max_retries attempts.
C40_CallsTerminate ==
    /\ [](Len(m_called) <= Len(fallback_order) * retry_max_retries)
    /\ [](mr.sent <= max_retries /\ mr.attempt <= max_retries)
    /\ Running ~> Ended
    /\ (mr.pc \in {"loop", "after"}) ~> (mr.pc = "done")

\* a call that raised after every provider had been invoked, the three behind
\* the smart source three times each
C40_Witness ==
    /\ m_pc = "raise"
    /\ m_source = NoSource
    /\ Len(m_called) = 1 + (Len(fallback_order) - 1) * retry_max_retries

====
